---- MODULE Spec2Model ----
(***************************************************************************)
(* Airbitrage: the agent run queue (src/lib/agent-queue.ts), the SSE       *)
(* stream route and the POST run route that trigger the scout-then-snipe   *)
(* pipeline, the token budget ledger (src/lib/budget.ts) and the LLM loops *)
(* that record usage in it.                                                *)
(***************************************************************************)
EXTENDS Integers, Sequences, FiniteSets, TLC

\* ------------------------------------------------------------------------
\* Bounds of the model
\* ------------------------------------------------------------------------
NumTypes == 4
MaxReq == 4
MaxPost == 1
NumCallers == 2
MaxOps == 3
MaxDay == 2
MaxTokens == 2
MaxOutTokens == 1
MaxDailyLimit == 4
MaxBlocks == 2
MaxOpps == 1
MaxFail == 1
NumPairs == 1
MaxPrice == 102
MaxQuotes == 3
MaxLeads == 5
MaxScout == 2

\* ------------------------------------------------------------------------
\* Program constants
\* ------------------------------------------------------------------------
MAX_CONCURRENT == 2

VALID_AGENTS == <<"listings", "auctions", "crypto", "retail", "tickets", "collectibles", "books">>

AgentType == {VALID_AGENTS[i] : i \in 1..NumTypes}

Requests == 1..MaxReq

VARIABLES
  activeRuns,     \* Map runId -> entry of the run that holds the slot
  queue,          \* QueuedRun[] : FIFO of waiting runs
  runIdCounter,   \* let runIdCounter
  nextReq,        \* number of GET /api/stream requests that have arrived
  stream,         \* per GET request: the route's closure state and its stream
  position,       \* position returned by the latest enqueueAgentRun call
  postRuns,       \* pipelines in progress that POST /api/agents/run started
  ledger,         \* content of .airbitrage/token-usage.json
  clock,          \* the current UTC day
  config,         \* BudgetConfig returned by loadBudgetConfig
  caller,         \* per concurrent caller of budget.ts: its call in progress
  opsDone,        \* number of budget.ts calls made so far
  run,            \* one run of an LLM loop: its locals and position
  hist,           \* what that run has done so far
  usageLog,       \* what the recordUsage calls of the concurrent callers have done
  crypto,         \* one call of findCryptoSpreads: its arguments and its result
  filter,         \* the filter phase of one run over its leads: locals and position
  lookup,         \* one call of batchResaleLookup: its locals and position
  snipe           \* the snipe loop with its message history: locals and position

qvars == <<activeRuns, queue, runIdCounter, nextReq, stream, position, postRuns>>

bvars == <<ledger, clock, config, caller, opsDone>>

rvars == <<run, hist>>

fvars == <<crypto, filter, lookup, snipe>>

vars == <<qvars, bvars, rvars, usageLog, fvars>>

\* ------------------------------------------------------------------------
\* agent-queue.ts
\* ------------------------------------------------------------------------

\* activeRuns.size
ActiveCount(a) == Cardinality(DOMAIN a)

isAgentRunning_NeverRunning(a, t) == FALSE

\* [...activeRuns.values()].includes(agentType)
isAgentRunning(a, t) == \E id \in DOMAIN a : a[id].agentType = t

HasFreeSlot_OffByOne(a) == ActiveCount(a) <= MAX_CONCURRENT

\* activeRuns.size < MAX_CONCURRENT
HasFreeSlot(a) == ActiveCount(a) < MAX_CONCURRENT

\* queue.findIndex(q => q.agentType === agentType), 0 standing for -1
existingIdx(q, t) ==
  IF \E i \in 1..Len(q) : q[i].agentType = t
  THEN CHOOSE i \in 1..Len(q) : q[i].agentType = t /\ \A j \in 1..(i-1) : q[j].agentType # t
  ELSE 0

Splice_KeepAll(q, i) == q

\* queue.splice(existingIdx, 1): the queue without its i-th entry
Splice(q, i) == [j \in 1..(Len(q) - 1) |-> IF j < i THEN q[j] ELSE q[j + 1]]

QueuedPosition_ZeroBased(q) == Len(q) - 1

\* position: queue.length, read after the push
QueuedPosition(q) == Len(q)

NextInLine_Last(q) == Len(q)

\* queue.shift(): the index of the entry processQueue takes
NextInLine(q) == 1

\* activeRuns.set(runId, agentType); the entry also carries the execute closure
SetActive(a, id, t, r) ==
  [k \in DOMAIN a \cup {id} |-> IF k = id THEN [agentType |-> t, req |-> r] ELSE a[k]]

\* activeRuns.delete(runId)
DeleteActive(a, id) == [k \in DOMAIN a \ {id} |-> a[k]]

\* ------------------------------------------------------------------------
\* stream/route.ts : the closure of one GET request
\* ------------------------------------------------------------------------
NewStream == [agentType |-> "", phase |-> "idle", started |-> "none", invoked |-> 0,
              events |-> <<>>, closed |-> FALSE]

\* function sendEvent(event, data): nothing is sent once closed
sendEvent(s, e) == IF s.closed THEN s ELSE [s EXCEPT !.events = Append(@, e)]

InvokeExecute_NotInvoked(s) == [s EXCEPT !.phase = "running"]

\* execute(), up to its first suspension: the route's 'started' progress event,
\* then dispatchAgentRun -> runScoutThenSnipe up to its first await, which emits
\* its own 'started' progress event
InvokeExecute(s) ==
  LET s1 == sendEvent(s, "progress:started")
      s2 == sendEvent(s1, "progress:started")
  IN  [s2 EXCEPT !.phase = "running", !.invoked = @ + 1]

\* processQueue(): while a slot is free and the queue is non-empty, start the next entry
RECURSIVE processQueue(_)
processQueue(st) ==
  IF HasFreeSlot(st.activeRuns) /\ Len(st.queue) > 0
  THEN LET i    == NextInLine(st.queue)
           next == st.queue[i]
           id   == st.runIdCounter + 1
           s    == st.stream[next.req]
       IN  processQueue(
             [activeRuns   |-> SetActive(st.activeRuns, id, next.agentType, next.req),
              queue        |-> Splice(st.queue, i),
              runIdCounter |-> id,
              stream       |-> [st.stream EXCEPT ![next.req] =
                                  InvokeExecute([s EXCEPT !.started = "resolved"])]])
  ELSE st

\* ------------------------------------------------------------------------
\* budget.ts
\* ------------------------------------------------------------------------
Callers == 1..NumCallers

TokenCounts == 1..MaxTokens

OutTokenCounts == 1..MaxOutTokens

\* loadBudgetConfig(): { ...SmallBudget, ...budget-config.json }, here a
\* configuration file that sets every ceiling to a small number
SmallBudget == [dailyTokenLimit |-> 4, perRunTokenLimit |-> 3, perRunToolCallLimit |-> 2]

\* the usage file is missing or does not parse
NoLedger == [ok |-> FALSE, date |-> 0, totalTokens |-> 0, totalInputTokens |-> 0,
             totalOutputTokens |-> 0, runs |-> <<>>]

\* { date: today, totalTokens: 0, totalInputTokens: 0, totalOutputTokens: 0, runs: [] }
EmptyUsage(today) == [ok |-> TRUE, date |-> today, totalTokens |-> 0, totalInputTokens |-> 0,
                      totalOutputTokens |-> 0, runs |-> <<>>]

\* usage.date !== today
IsStale(usage, today) == usage.date # today

\* readUsage(): the parsed file, or an empty entry for today when the file is
\* missing, corrupted or of another day
readUsage(file, today) ==
  IF file.ok /\ ~IsStale(file, today) THEN file ELSE EmptyUsage(today)

Allowed_Inclusive(total, limit) == total <= limit

\* allowed: usage.totalTokens < config.dailyTokenLimit
Allowed(total, limit) == total < limit

\* Math.max(0, x)
Max0(x) == IF x > 0 THEN x ELSE 0

\* the object checkBudget returns
checkBudget(file, today, cfg) ==
  LET usage == readUsage(file, today)
  IN [allowed   |-> Allowed(usage.totalTokens, cfg.dailyTokenLimit),
      remaining |-> Max0(cfg.dailyTokenLimit - usage.totalTokens),
      used      |-> usage.totalTokens,
      limit     |-> cfg.dailyTokenLimit,
      runsToday |-> Len(usage.runs)]

AddUsage_Replace(usage, inputTokens, outputTokens) ==
  [usage EXCEPT !.totalTokens = inputTokens + outputTokens,
                !.totalInputTokens = inputTokens,
                !.totalOutputTokens = outputTokens,
                !.runs = Append(@, [inputTokens |-> inputTokens, outputTokens |-> outputTokens,
                                    totalTokens |-> inputTokens + outputTokens])]

\* recordUsage, between readUsage and writeUsage: the totals grow and a run entry is pushed
AddUsage(usage, inputTokens, outputTokens) ==
  [usage EXCEPT !.totalTokens = @ + inputTokens + outputTokens,
                !.totalInputTokens = @ + inputTokens,
                !.totalOutputTokens = @ + outputTokens,
                !.runs = Append(@, [inputTokens |-> inputTokens, outputTokens |-> outputTokens,
                                    totalTokens |-> inputTokens + outputTokens])]

\* the history of the recordUsage calls: the usage file they started with, the
\* tokens the completed calls were asked to record, and whether a call was made
\* while another was between its readUsage and its writeUsage
NewUsageLog(file) == [init |-> file, sum |-> 0, overlap |-> FALSE]

IdleCaller == [pc |-> "idle", today |-> 0, usage |-> NoLedger, reset |-> FALSE,
               inputTokens |-> 0, outputTokens |-> 0, returned |-> FALSE,
               result |-> [allowed |-> FALSE, remaining |-> 0, used |-> 0, limit |-> 0,
                           runsToday |-> 0]]

\* ------------------------------------------------------------------------
\* Actions
\* ------------------------------------------------------------------------

\* GET /api/stream?agentType=t passes the isAgentRunning check (route.ts 18-41);
\* agentType is the handler's local, read for the last time by the enqueue call
StreamGet(t) ==
  /\ nextReq < MaxReq
  /\ ~isAgentRunning(activeRuns, t)
  /\ nextReq' = nextReq + 1
  /\ stream' = [stream EXCEPT ![nextReq + 1] =
                  [@ EXCEPT !.agentType = t,
                            !.phase = "preflight"]]
  /\ UNCHANGED <<activeRuns, queue, runIdCounter, position, postRuns>>
  /\ UNCHANGED <<bvars, rvars, usageLog, fvars>>

\* The awaited key and budget checks pass (route.ts 43-57; a request they refuse
\* gets a plain HTTP response and touches no state), then the stream is built:
\* start(controller) sends 'connected' and calls enqueueAgentRun (route.ts 59-138)
StreamStart(r) ==
  /\ stream[r].phase = "preflight"
  /\ LET t  == stream[r].agentType
         s0 == sendEvent([stream[r] EXCEPT !.agentType = ""], "connected")
     IN
     IF isAgentRunning(activeRuns, t)
     THEN \* agent-queue.ts 55-60
          /\ position' = -1
          /\ stream' = [stream EXCEPT ![r] = [s0 EXCEPT !.phase = "refused", !.started = "rejected"]]
          /\ UNCHANGED <<activeRuns, queue, runIdCounter>>
     ELSE LET idx == existingIdx(queue, t)
              q1  == IF idx > 0 THEN Splice(queue, idx) ELSE queue
              \* removed.reject(new Error('Replaced by new run'))
              st1 == IF idx > 0
                     THEN [stream EXCEPT ![queue[idx].req] =
                             [@ EXCEPT !.started = "rejected", !.phase = "evicted"]]
                     ELSE stream
          IN
          IF HasFreeSlot(activeRuns)
          THEN \* agent-queue.ts 70-80
               LET id == runIdCounter + 1 IN
               /\ runIdCounter' = id
               /\ activeRuns' = SetActive(activeRuns, id, t, r)
               /\ queue' = q1
               /\ position' = 0
               /\ stream' = [st1 EXCEPT ![r] =
                               InvokeExecute([s0 EXCEPT !.started = "resolved"])]
          ELSE \* agent-queue.ts 82-92, then route.ts 130-137
               LET q2 == Append(q1, [agentType |-> t, req |-> r]) IN
               /\ queue' = q2
               /\ position' = QueuedPosition(q2)
               /\ stream' = [st1 EXCEPT ![r] =
                               sendEvent([s0 EXCEPT !.phase = "queued", !.started = "pending"],
                                         "progress:queued")]
               /\ UNCHANGED <<activeRuns, runIdCounter>>
  /\ UNCHANGED <<nextReq, postRuns>>
  /\ UNCHANGED <<bvars, rvars, usageLog, fvars>>

\* dispatchAgentRun settles (a result, or a thrown exception), execute() runs to
\* its end (route.ts 98-126) and the queue's reaction follows in the same job
\* checkpoint: .finally(() => { activeRuns.delete(runId); processQueue(); })
RunCompletes(id, outcome) ==
  /\ id \in DOMAIN activeRuns
  /\ LET r  == activeRuns[id].req
         s1 == sendEvent(stream[r], IF outcome = "throw" THEN "error" ELSE "result")
         s2 == sendEvent(s1, "done")
         s3 == [s2 EXCEPT !.closed = TRUE, !.phase = "finished"]
         st == processQueue([activeRuns   |-> DeleteActive(activeRuns, id),
                             queue        |-> queue,
                             runIdCounter |-> runIdCounter,
                             stream       |-> [stream EXCEPT ![r] = s3]])
     IN /\ activeRuns' = st.activeRuns
        /\ queue' = st.queue
        /\ runIdCounter' = st.runIdCounter
        /\ stream' = st.stream
  /\ UNCHANGED <<nextReq, position, postRuns>>
  /\ UNCHANGED <<bvars, rvars, usageLog, fvars>>

\* POST /api/agents/run: dispatchAgentRun is awaited directly (part_010 59-67)
PostStart ==
  /\ postRuns < MaxPost
  /\ postRuns' = postRuns + 1
  /\ UNCHANGED <<activeRuns, queue, runIdCounter, nextReq, stream, position>>
  /\ UNCHANGED <<bvars, rvars, usageLog, fvars>>

\* the POST handler's dispatchAgentRun settles and the response is sent
PostFinish ==
  /\ postRuns > 0
  /\ postRuns' = postRuns - 1
  /\ UNCHANGED <<activeRuns, queue, runIdCounter, nextReq, stream, position>>
  /\ UNCHANGED <<bvars, rvars, usageLog, fvars>>

\* ------------------------------------------------------------------------
\* Concurrent callers of budget.ts
\* ------------------------------------------------------------------------

\* checkBudget(config) is called: readUsage awaits ensureDataDir, then reads todayUTC()
CallCheckBudget(p) ==
  /\ caller[p].pc = "idle"
  /\ opsDone < MaxOps
  /\ opsDone' = opsDone + 1
  /\ caller' = [caller EXCEPT ![p] = [IdleCaller EXCEPT !.pc = "cb_file", !.today = clock]]
  /\ UNCHANGED <<ledger, clock, config>>
  /\ UNCHANGED <<qvars, rvars, usageLog, fvars>>

\* checkBudget: readFile returns and the result is built (budget.ts 64-76, 99-105)
CheckBudgetReturns(p) ==
  /\ caller[p].pc = "cb_file"
  /\ caller' = [caller EXCEPT ![p] = [@ EXCEPT !.pc = "idle", !.returned = TRUE,
                                               !.result = checkBudget(ledger, caller[p].today, config)]]
  /\ UNCHANGED <<ledger, clock, config, opsDone>>
  /\ UNCHANGED <<qvars, rvars, usageLog, fvars>>

\* recordUsage(agentType, i, o, 0) is called: readUsage awaits ensureDataDir, then reads todayUTC()
CallRecordUsage(p, i, o) ==
  /\ caller[p].pc = "idle"
  /\ opsDone < MaxOps
  /\ opsDone' = opsDone + 1
  /\ caller' = [caller EXCEPT ![p] = [IdleCaller EXCEPT !.pc = "ru_file", !.today = clock,
                                                        !.inputTokens = i, !.outputTokens = o]]
  /\ usageLog' = [usageLog EXCEPT !.overlap =
                     @ \/ \E q \in Callers : caller[q].pc \in {"ru_file", "ru_write"}]
  /\ UNCHANGED <<ledger, clock, config>>
  /\ UNCHANGED <<qvars, rvars, fvars>>

\* recordUsage: readFile returns, the entry is updated in memory (budget.ts 64-76, 119-132)
RecordUsageReads(p) ==
  /\ caller[p].pc = "ru_file"
  /\ LET c == caller[p]
         usage == readUsage(ledger, c.today)
     IN caller' = [caller EXCEPT ![p] =
                     [c EXCEPT !.pc = "ru_write",
                               !.reset = (ledger.ok /\ IsStale(ledger, c.today)),
                               !.usage = AddUsage(usage, c.inputTokens, c.outputTokens)]]
  /\ UNCHANGED <<ledger, clock, config, opsDone>>
  /\ UNCHANGED <<qvars, rvars, usageLog, fvars>>

\* recordUsage: writeUsage replaces the file (budget.ts 79-82, 134)
RecordUsageWrites(p) ==
  /\ caller[p].pc = "ru_write"
  /\ ledger' = caller[p].usage
  /\ caller' = [caller EXCEPT ![p] = IdleCaller]
  /\ usageLog' = [usageLog EXCEPT !.sum = @ + caller[p].inputTokens + caller[p].outputTokens]
  /\ UNCHANGED <<clock, config, opsDone>>
  /\ UNCHANGED <<qvars, rvars, fvars>>

\* UTC midnight passes
Midnight ==
  /\ clock < MaxDay
  /\ clock' = clock + 1
  /\ UNCHANGED <<ledger, config, caller, opsDone>>
  /\ UNCHANGED <<qvars, rvars, usageLog, fvars>>

\* ------------------------------------------------------------------------
\* The LLM loops: the snipe loop of runScoutThenSnipe (scout/runner.ts) and
\* the base loop of runAgent (run-agent.ts)
\* ------------------------------------------------------------------------

\* const maxToolCalls = 5
maxToolCalls == 5

\* const maxLoops = 15
maxLoops == 15

\* the text of a response as parseOpportunities sees it: is there an
\* <opportunities> block, what JSON.parse makes of its content ("invalid" when it
\* throws), and how many elements of the array pass the field filter
NoBody == [block |-> FALSE, json |-> "none", valid |-> 0]

Bodies ==
  {NoBody, [block |-> TRUE, json |-> "invalid", valid |-> 0],
   [block |-> TRUE, json |-> "object", valid |-> 0]}
  \cup {[block |-> TRUE, json |-> "array", valid |-> v] : v \in 0..MaxOpps}

NoResponse == [input_tokens |-> 0, output_tokens |-> 0, stop_reason |-> "none", toolUses |-> 0,
               body |-> NoBody]

\* what callClaude can return: usage, stop_reason and the number of tool_use
\* blocks, which are present only when the request offered tools
Responses(toolsOffered) ==
  {[input_tokens |-> i, output_tokens |-> o, stop_reason |-> sr, toolUses |-> n, body |-> b] :
     i \in TokenCounts, o \in OutTokenCounts, sr \in {"end_turn"}, n \in {0}, b \in Bodies}
  \cup (IF toolsOffered
        THEN {[input_tokens |-> i, output_tokens |-> o, stop_reason |-> sr, toolUses |-> n,
               body |-> b] :
                i \in TokenCounts, o \in OutTokenCounts, sr \in {"tool_use"},
                n \in 1..MaxBlocks, b \in Bodies}
        ELSE {})

parseOpportunities_CountsObject(response) ==
  IF ~response.body.block THEN 0 ELSE IF response.body.json = "invalid" THEN 0 ELSE 1

\* function parseOpportunities(response): the number of opportunities returned
parseOpportunities(response) ==
  IF ~response.body.block THEN 0
  ELSE IF response.body.json = "invalid" THEN 0
  ELSE IF response.body.json # "array" THEN 0
  ELSE response.body.valid

\* function estimateCost(inputTokens, outputTokens), in dollars per million tokens
estimateCost(inputTokens, outputTokens) == 3 * inputTokens + 15 * outputTokens

NoResult == [success |-> FALSE, error |-> FALSE, abortReason |-> FALSE,
             opportunities |-> 0, reasoning |-> FALSE,
             totalInputTokens |-> 0, totalOutputTokens |-> 0, totalToolCalls |-> 0,
             estimatedCost |-> 0]

\* the locals of runScoutThenSnipe before its snipe phase: the agent type, the
\* source awaited, the run timer, what the sources returned so far (leads with
\* and without a price, fewer than 5 Craigslist leads, book leads, collectibles
\* leads, qualified deals, leads qualified by the resale lookups) and whether
\* the merged list of qualified leads is non-empty
NoScout ==
  [agent |-> "", stage |-> "none", timer |-> "none", minSpreadBp |-> 0,
   priced |-> FALSE, unpriced |-> FALSE, few |-> TRUE, books |-> FALSE, collect |-> "none",
   deals |-> FALSE, qualified |-> "none", bookQualified |-> FALSE, direct |-> FALSE,
   merged |-> FALSE]

NewRun(kind, needsResearch) ==
  [kind |-> kind, pc |-> IF kind = "none" THEN "idle" ELSE "budget_dir",
   needsResearch |-> needsResearch, today |-> 0, usage |-> NoLedger,
   loop |-> 0, toolCalls |-> 0, totalInputTokens |-> 0, totalOutputTokens |-> 0,
   response |-> NoResponse, finalResponse |-> FALSE, warned |-> FALSE, result |-> NoResult,
   scout |-> NoScout]

\* what the run has done: LLM calls issued and returned, recordUsage calls
\* completed, the usage the returned calls reported, the tokens the run recorded
\* per UTC day, the usage file and the day it started with, the checkBudget
\* calls made, the sources that returned, the requests that failed inside them
\* and the diagnostic entries recording such failures, the timeout events
\* emitted, and for a crypto run the prices, spreads and opportunities
NewHist(file, day) ==
  [issued |-> 0, calls |-> 0, recorded |-> 0, failedAt |-> 0,
   inputTokens |-> 0, outputTokens |-> 0,
   recOnDay |-> [d \in 0..MaxDay |-> 0], init |-> file, startDay |-> day,
   budgetChecks |-> 0, fetched |-> {}, failures |-> 0, diagnostics |-> 0,
   timeoutEvents |-> 0, prices |-> <<>>, spreads |-> {}, opportunities |-> {}]

\* tools: snipeTools && toolCallsUsed < maxToolCalls (runner.ts 1079); claudeTools (run-agent.ts 274)
ToolsOffered(r) ==
  IF r.kind = "snipe" THEN r.needsResearch /\ r.toolCalls < maxToolCalls ELSE TRUE

AfterCallPc_SkipRecord(kind) == "recorded"

\* await recordUsage(...) follows the response (runner.ts 1086, run-agent.ts 285)
AfterCallPc(kind) == "rec_dir"

\* clearTimeout(runTimeout): cancels a timer that has not fired yet
clearTimeout(timer) == IF timer = "armed" THEN "cleared" ELSE timer

ParsedResponse_Never(r) == FALSE

\* is there a response to parse: finalResponse (runner.ts 1134), lastResponse
\* (run-agent.ts 354), which is null until a call has returned
ParsedResponse(r) ==
  IF r.kind = "snipe" THEN r.finalResponse ELSE r.response.stop_reason # "none"

\* return { success: true, ... } (runner.ts 1145-1159, run-agent.ts 364-372); the
\* reasoning is the text of the parsed response
ReturnSuccess(r) ==
  [r EXCEPT !.pc = "returned", !.scout.timer = clearTimeout(r.scout.timer),
            !.result = [success |-> TRUE, error |-> FALSE, abortReason |-> FALSE,
                        opportunities |-> IF ParsedResponse(r) THEN parseOpportunities(r.response)
                                          ELSE 0,
                        reasoning |-> ParsedResponse(r) /\ r.response.body.block,
                        totalInputTokens |-> r.totalInputTokens,
                        totalOutputTokens |-> r.totalOutputTokens,
                        totalToolCalls |-> IF r.kind = "snipe" THEN 1 + r.toolCalls
                                           ELSE r.toolCalls,
                        estimatedCost |-> estimateCost(r.totalInputTokens,
                                                       r.totalOutputTokens)]]

ReturnError_ZeroTokens(r) == [r EXCEPT !.pc = "returned", !.result = [NoResult EXCEPT !.error = TRUE]]

\* the catch block (runner.ts 1161-1177, run-agent.ts 373-387)
ReturnError(r) ==
  [r EXCEPT !.pc = "returned", !.scout.timer = clearTimeout(r.scout.timer),
            !.result = [success |-> FALSE, error |-> TRUE, abortReason |-> FALSE,
                        opportunities |-> 0, reasoning |-> FALSE,
                        totalInputTokens |-> r.totalInputTokens,
                        totalOutputTokens |-> r.totalOutputTokens,
                        totalToolCalls |-> IF r.kind = "snipe" THEN 0 ELSE r.toolCalls,
                        estimatedCost |-> estimateCost(r.totalInputTokens,
                                                       r.totalOutputTokens)]]

ReturnAbort_AsError(r) == [r EXCEPT !.pc = "returned", !.result = [NoResult EXCEPT !.error = TRUE]]

\* the daily budget abort (runner.ts 966-978, run-agent.ts 162-173)
ReturnAbort(r) ==
  [r EXCEPT !.pc = "returned",
            !.result = [success |-> FALSE, error |-> FALSE, abortReason |-> TRUE,
                        opportunities |-> 0, reasoning |-> FALSE,
                        totalInputTokens |-> 0, totalOutputTokens |-> 0, totalToolCalls |-> 0,
                        estimatedCost |-> 0]]

\* runAgent, top of the while loop up to the awaited daily re-check (run-agent.ts 206-223)
BaseLoopTop(r) ==
  IF ~(r.loop < maxLoops) THEN ReturnSuccess(r)
  ELSE LET r1 == [r EXCEPT !.loop = @ + 1] IN
       IF r1.totalInputTokens + r1.totalOutputTokens >= config.perRunTokenLimit
       THEN ReturnSuccess([r1 EXCEPT !.warned = TRUE])
       ELSE IF r1.toolCalls >= config.perRunToolCallLimit
       THEN ReturnSuccess([r1 EXCEPT !.warned = TRUE])
       ELSE [r1 EXCEPT !.pc = "recheck_dir"]

\* readUsage after its await of ensureDataDir: const today = todayUTC()
RunReadsToday ==
  /\ run.pc \in {"budget_dir", "recheck_dir", "rec_dir"}
  /\ run' = [run EXCEPT !.today = clock,
                        !.pc = CASE run.pc = "budget_dir" -> "budget_file"
                                 [] run.pc = "recheck_dir" -> "recheck_file"
                                 [] run.pc = "rec_dir" -> "rec_file"]
  /\ hist' = IF run.pc = "rec_dir" THEN hist ELSE [hist EXCEPT !.budgetChecks = @ + 1]
  /\ UNCHANGED <<qvars, bvars, usageLog, fvars>>

\* the first checkBudget of the run returns (runner.ts 964-978, run-agent.ts 158-173)
RunBudgetReturns ==
  /\ run.pc = "budget_file"
  /\ run' = IF ~checkBudget(ledger, run.today, config).allowed THEN ReturnAbort(run)
            ELSE IF run.kind = "snipe" THEN [run EXCEPT !.pc = "call"]
            ELSE BaseLoopTop(run)
  /\ hist' = IF run'.pc = "call" THEN [hist EXCEPT !.issued = @ + 1] ELSE hist
  /\ UNCHANGED <<qvars, bvars, usageLog, fvars>>

\* runAgent: the daily re-check inside the loop returns (run-agent.ts 223-227)
RunRecheckReturns ==
  /\ run.pc = "recheck_file"
  /\ run' = IF ~checkBudget(ledger, run.today, config).allowed
            THEN ReturnSuccess([run EXCEPT !.warned = TRUE])
            ELSE [run EXCEPT !.pc = "call"]
  /\ hist' = IF run'.pc = "call" THEN [hist EXCEPT !.issued = @ + 1] ELSE hist
  /\ UNCHANGED <<qvars, bvars, usageLog, fvars>>

\* callClaude returns a response; the run adds its usage to its totals
\* (runner.ts 1073-1085, run-agent.ts 268-282)
RunCallReturns(resp) ==
  /\ run.pc = "call"
  /\ run' = [run EXCEPT !.response = resp,
                        !.totalInputTokens = @ + resp.input_tokens,
                        !.totalOutputTokens = @ + resp.output_tokens,
                        !.pc = AfterCallPc(run.kind)]
  /\ hist' = [hist EXCEPT !.calls = @ + 1,
                          !.inputTokens = @ + resp.input_tokens,
                          !.outputTokens = @ + resp.output_tokens]
  /\ UNCHANGED <<qvars, bvars, usageLog, fvars>>

\* callClaude throws: control goes to the catch block
RunCallThrows ==
  /\ run.pc = "call"
  /\ run' = ReturnError(run)
  /\ hist' = [hist EXCEPT !.failedAt = hist.issued]
  /\ UNCHANGED <<qvars, bvars, usageLog, fvars>>

\* recordUsage: readFile returns, the entry is updated in memory
RunRecordReads ==
  /\ run.pc = "rec_file"
  /\ run' = [run EXCEPT !.pc = "rec_write",
                        !.usage = AddUsage(readUsage(ledger, run.today),
                                           run.response.input_tokens,
                                           run.response.output_tokens)]
  /\ UNCHANGED <<hist, qvars, bvars, usageLog, fvars>>

\* recordUsage: writeUsage replaces the file and recordUsage resolves
RunRecordWrites ==
  /\ run.pc = "rec_write"
  /\ ledger' = run.usage
  /\ run' = [run EXCEPT !.pc = "recorded", !.usage = NoLedger]
  /\ hist' = [hist EXCEPT !.recorded = @ + 1,
                          !.recOnDay[run.today] = @ + run.response.input_tokens
                                                    + run.response.output_tokens]
  /\ UNCHANGED <<clock, config, caller, opsDone, qvars, usageLog, fvars>>

\* after the usage is recorded: is the response final, or does it ask for tools
\* (runner.ts 1088-1097, run-agent.ts 292-297, 347-350)
RunContinue ==
  /\ run.pc = "recorded"
  /\ run' = IF run.kind = "snipe"
            THEN IF run.response.toolUses = 0 \/ run.toolCalls >= maxToolCalls
                 THEN ReturnSuccess([run EXCEPT !.finalResponse = TRUE])
                 ELSE [run EXCEPT !.pc = "tools"]
            ELSE IF run.response.stop_reason = "tool_use"
                 THEN [run EXCEPT !.pc = "tools"]
                 ELSE ReturnSuccess([run EXCEPT !.finalResponse = TRUE])
  /\ UNCHANGED <<hist, qvars, bvars, usageLog, fvars>>

\* every tool_use block of the response has been executed (a failing tool is
\* caught and answered with an error text) and the results are pushed; the loop
\* goes round (runner.ts 1099-1131, run-agent.ts 299-346)
RunToolsDone ==
  /\ run.pc = "tools"
  /\ LET r1 == [run EXCEPT !.toolCalls = @ + run.response.toolUses] IN
     run' = IF run.kind = "snipe"
            THEN IF r1.loop + 1 < maxToolCalls + 1
                 THEN [r1 EXCEPT !.loop = @ + 1, !.pc = "call"]
                 ELSE ReturnSuccess([r1 EXCEPT !.loop = @ + 1])
            ELSE BaseLoopTop(r1)
  /\ hist' = IF run'.pc = "call" THEN [hist EXCEPT !.issued = @ + 1] ELSE hist
  /\ UNCHANGED <<qvars, bvars, usageLog, fvars>>

\* UTC midnight passes during the run
RunMidnight ==
  /\ run.pc # "returned"
  /\ clock < MaxDay
  /\ clock' = clock + 1
  /\ UNCHANGED <<ledger, config, caller, opsDone, qvars, rvars, usageLog, fvars>>

\* ------------------------------------------------------------------------
\* runScoutThenSnipe: the scout and filter phases (scout/runner.ts 524-961,
\* scout/sources.ts, scout/filter.ts)
\* ------------------------------------------------------------------------

\* getScoutConfig(agentType): the sources an agent type uses; every type but
\* crypto has a non-empty list of search queries
getScoutConfig(agentType) ==
  [useCryptoAPIs       |-> agentType = "crypto",
   useCraigslistRSS    |-> agentType = "listings",
   useGovAuctions      |-> agentType = "auctions",
   useCollectiblesAPIs |-> agentType = "collectibles",
   useOpenLibrary      |-> agentType = "books",
   useDealFeeds        |-> agentType = "retail",
   hasSearchQueries    |-> agentType # "crypto",
   useEbaySearch       |-> agentType \in {"auctions", "collectibles", "books"}]

\* the awaited network steps of the scout and filter phases, in program order
Stages ==
  <<"craigslist", "fallback", "gov", "collectibles", "books", "deals", "tavily", "ebay",
    "resale", "direct", "resale2", "bookresale">>

\* the source fetchers of sources.ts among them; the rest are the lookups of the
\* filter phase
SourceStages ==
  {"crypto", "craigslist", "fallback", "gov", "collectibles", "books", "deals", "tavily", "ebay"}

\* the condition under which the run awaits a stage (runner.ts 608, 628, 647,
\* 664, 685, 702, 720, 741-747, 789, 808-811, 846, 870)
Wanted(sc, stage) ==
  LET c == getScoutConfig(sc.agent) IN
  CASE stage = "craigslist"   -> c.useCraigslistRSS
    [] stage = "fallback"     -> c.useCraigslistRSS /\ sc.few
    [] stage = "gov"          -> c.useGovAuctions
    [] stage = "collectibles" -> c.useCollectiblesAPIs
    [] stage = "books"        -> c.useOpenLibrary
    [] stage = "deals"        -> c.useDealFeeds
    [] stage = "tavily"       -> c.hasSearchQueries
    [] stage = "ebay"         -> c.useEbaySearch
    [] stage = "resale"       -> sc.priced
    [] stage = "direct"       -> sc.unpriced /\ sc.qualified # "many"
    [] stage = "resale2"      -> sc.direct /\ sc.priced
    [] stage = "bookresale"   -> sc.books
    [] OTHER                  -> FALSE

StageIndex(stage) == CHOOSE i \in DOMAIN Stages : Stages[i] = stage

\* the first stage after position i that the run awaits, "merge" when none is left
RECURSIVE NextStageFrom(_, _)
NextStageFrom(sc, i) ==
  IF i > Len(Stages) THEN "merge"
  ELSE IF Wanted(sc, Stages[i]) THEN Stages[i]
  ELSE NextStageFrom(sc, i + 1)

\* the fetchers that push a SourceDiagnostic for a failed request: fetchCraigslistRSS
\* (sources.ts 358-386), fetchGovAuctions (843-881), fetchDiscogsListings and
\* fetchSneakerPrices (623-680, 727-774), fetchOpenLibraryBooks (962-1005),
\* fetchDealFeeds (500-505, an 'empty' entry for the feed). tavilyBatchSearch
\* (98-100), the exchange clients (169, 200, 243), searchEbayListings and the
\* lookups of filter.ts only skip the request
RecordsDiagnostics(stage) ==
  stage \in {"craigslist", "gov", "collectibles", "books", "deals"}

\* what a stage can return: how many of its requests failed (each failure is
\* caught inside the callee) and what it found
Found(stage) ==
  CASE stage \in {"craigslist", "fallback", "gov", "tavily", "ebay"} ->
         {"none", "unpriced", "priced", "many"}
    [] stage = "collectibles" -> {"none", "priced", "direct"}
    [] stage = "books"        -> {"none", "books"}
    [] stage = "deals"        -> {"none", "deals"}
    [] stage \in {"resale", "resale2"} -> {"none", "some", "many"}
    [] stage = "direct"       -> {"none", "priced"}
    [] stage = "bookresale"   -> {"none", "some"}
    [] OTHER                  -> {"none"}

Outcomes(stage) == {[failed |-> f, found |-> g] : f \in 0..MaxFail, g \in Found(stage)}

\* the run's locals after a stage returned
Absorb(sc, out) ==
  LET st == sc.stage
      g  == out.found
  IN
  CASE st \in {"craigslist", "fallback", "gov", "tavily", "ebay"} ->
         [sc EXCEPT !.priced = @ \/ g \in {"priced", "many"},
                    !.unpriced = @ \/ g = "unpriced",
                    !.few = IF st = "craigslist" THEN g # "many" ELSE @]
    [] st = "collectibles" ->
         [sc EXCEPT !.priced = @ \/ g # "none", !.collect = g]
    [] st = "books"  -> [sc EXCEPT !.books = g = "books"]
    [] st = "deals"  -> [sc EXCEPT !.deals = g = "deals"]
    [] st = "resale" -> [sc EXCEPT !.qualified = g]
    [] st = "direct" -> [sc EXCEPT !.priced = @ \/ g = "priced", !.direct = TRUE]
    [] st = "resale2" ->
         [sc EXCEPT !.qualified = IF g = "none" THEN @
                                  ELSE IF @ = "many" THEN "many" ELSE g]
    [] st = "bookresale" -> [sc EXCEPT !.bookQualified = g = "some"]
    [] OTHER -> sc

\* allQualified.length > 0 (runner.ts 886-908): leads qualified by the resale
\* lookups, qualified deals, qualified books, and collectibles qualified on
\* marketplace data when the lookups qualified none of them
HasQualified(sc) ==
  \/ sc.qualified # "none"
  \/ sc.deals
  \/ sc.bookQualified
  \/ sc.collect = "direct"


\* the exchanges in the order fetchCryptoPrices appends their quotes (sources.ts 123-133)
Exchanges == <<"Binance", "Coinbase", "Kraken">>

ExchangeIds == DOMAIN Exchanges

Pairs == 1..NumPairs

\* a quote in dollars; 0 stands for no quote (the request failed, the exchange
\* does not list the pair, or the price parsed to a falsy value)
PriceLevels == {0} \cup 100..MaxPrice

\* what fetchCryptoPrices can return for the configured pairs
PriceTables == [Pairs -> [ExchangeIds -> PriceLevels]]

\* minSpreadPercent in hundredths of a percent: 0.15 by default, or the user's
MinSpreads == {15, 150}

\* findCryptoSpreads(prices, minSpreadPercent): for every pair and every two
\* quotes of it, the cheaper is the buy side (the second one on a tie) and the
\* spread is kept when (high - low) / low * 100 >= minSpreadPercent
findCryptoSpreads(prices, minSpreadBp) ==
  LET low(p, i, j)  == IF prices[p][i] < prices[p][j] THEN i ELSE j
      high(p, i, j) == IF prices[p][i] < prices[p][j] THEN j ELSE i
  IN {[pair |-> t[1],
       buyExchange  |-> Exchanges[low(t[1], t[2], t[3])],
       buyPrice     |-> prices[t[1]][low(t[1], t[2], t[3])],
       sellExchange |-> Exchanges[high(t[1], t[2], t[3])],
       sellPrice    |-> prices[t[1]][high(t[1], t[2], t[3])]] :
        t \in {u \in Pairs \X ExchangeIds \X ExchangeIds :
                 /\ u[2] < u[3]
                 /\ prices[u[1]][u[2]] > 0 /\ prices[u[1]][u[3]] > 0
                 /\ (prices[u[1]][high(u[1], u[2], u[3])] - prices[u[1]][low(u[1], u[2], u[3])])
                       * 10000 >= minSpreadBp * prices[u[1]][low(u[1], u[2], u[3])]}}

buildCryptoOpportunities_Estimated(spreads) ==
  {[pair |-> sp.pair, buySource |-> sp.buyExchange, buyPrice |-> sp.buyPrice * 100,
    sellSource |-> sp.sellExchange, sellPrice |-> sp.sellPrice * 100,
    sellPriceType |-> "estimated"] : sp \in spreads}

\* buildCryptoOpportunities(spreads): one opportunity per spread, prices in cents
buildCryptoOpportunities(spreads) ==
  {[pair |-> sp.pair, buySource |-> sp.buyExchange, buyPrice |-> sp.buyPrice * 100,
    sellSource |-> sp.sellExchange, sellPrice |-> sp.sellPrice * 100,
    sellPriceType |-> "verified"] : sp \in spreads}

\* both returns of the crypto branch (runner.ts 561-603)
CryptoReturn(r, opportunities) ==
  [r EXCEPT !.pc = "returned", !.scout.timer = clearTimeout(r.scout.timer),
            !.result = [NoResult EXCEPT !.success = TRUE,
                                        !.opportunities = Cardinality(opportunities),
                                        !.reasoning = TRUE]]

ZeroLeadsReturn_Fails(r) == [r EXCEPT !.pc = "returned", !.result = [NoResult EXCEPT !.error = TRUE]]

\* the return for an empty list of qualified leads (runner.ts 925-953)
ZeroLeadsReturn(r) ==
  [r EXCEPT !.pc = "returned",
            !.result = [NoResult EXCEPT !.success = TRUE, !.reasoning = TRUE]]

\* the snipe phase is entered with the merged list; the lists of the single
\* sources are not read again
EnterSnipe(r) ==
  [r EXCEPT !.pc = "budget_dir",
            !.scout = [NoScout EXCEPT !.agent = r.scout.agent, !.timer = r.scout.timer,
                                      !.stage = "snipe",
                                      !.merged = HasQualified(r.scout)]]

Merge_AlwaysSnipe(r) == EnterSnipe(r)

\* the merge of the qualified leads (runner.ts 907-961): return when there is
\* none, otherwise enter the snipe phase, which starts with the budget check
Merge(r) ==
  IF HasQualified(r.scout)
  THEN EnterSnipe(r)
  ELSE ZeroLeadsReturn([r EXCEPT !.scout.stage = "merged"])

\* run on from position i of the stages to the next await
Advance(r, i) ==
  LET next == NextStageFrom(r.scout, i)
  IN  IF next = "merge" THEN Merge(r) ELSE [r EXCEPT !.pc = "fetch", !.scout.stage = next]

\* runScoutThenSnipe up to its first await: the timer is set and the first
\* source of the agent's configuration is called (runner.ts 529-550, 606-611)
StartScout(agentType, needsResearch, minSpreadBp) ==
  LET r == [NewRun("snipe", needsResearch) EXCEPT !.scout.agent = agentType,
                                                  !.scout.timer = "armed",
                                                  !.scout.minSpreadBp = minSpreadBp]
  IN  IF getScoutConfig(agentType).useCryptoAPIs
      THEN [r EXCEPT !.pc = "fetch", !.scout.stage = "crypto"]
      ELSE Advance(r, 1)

\* fetchCryptoPrices returns: the spreads are detected and the run returns
\* (runner.ts 550-604)
CryptoReturns(prices, failed) ==
  /\ run.pc = "fetch" /\ run.scout.stage = "crypto"
  /\ failed > 0 => \E p \in Pairs, e \in ExchangeIds : prices[p][e] = 0
  /\ LET spreads == findCryptoSpreads(prices, run.scout.minSpreadBp)
         opportunities == buildCryptoOpportunities(spreads)
     IN  /\ run' = CryptoReturn(run, opportunities)
         /\ hist' = [hist EXCEPT !.fetched = @ \cup {"crypto"},
                                 !.failures = @ + failed,
                                 !.diagnostics = @ + IF RecordsDiagnostics("crypto")
                                                     THEN failed ELSE 0,
                                 !.prices = prices,
                                 !.spreads = spreads,
                                 !.opportunities = opportunities]
  /\ UNCHANGED <<qvars, bvars, usageLog, fvars>>

\* the awaited source or lookup returns and the run goes on to its next await,
\* or merges the qualified leads (runner.ts 606-953)
FetchReturns(out) ==
  /\ run.pc = "fetch" /\ run.scout.stage # "crypto"
  /\ out \in Outcomes(run.scout.stage)
  /\ run' = Advance([run EXCEPT !.scout = Absorb(run.scout, out)],
                    StageIndex(run.scout.stage) + 1)
  /\ hist' = [hist EXCEPT !.fetched = @ \cup {run.scout.stage},
                          !.failures = @ + out.failed,
                          !.diagnostics = @ + IF RecordsDiagnostics(run.scout.stage)
                                              THEN out.failed ELSE 0]
  /\ UNCHANGED <<qvars, bvars, usageLog, fvars>>

TimerFires_Aborts ==
  /\ run.scout.timer = "armed"
  /\ run' = [ReturnError(run) EXCEPT !.scout.timer = "fired"]
  /\ hist' = [hist EXCEPT !.timeoutEvents = @ + 1]
  /\ UNCHANGED <<qvars, bvars, usageLog, fvars>>

\* the 180 s timer set at runner.ts 537-539 fires: one error progress event
TimerFires ==
  /\ run.scout.timer = "armed"
  /\ run' = [run EXCEPT !.scout.timer = "fired"]
  /\ hist' = [hist EXCEPT !.timeoutEvents = @ + 1]
  /\ UNCHANGED <<qvars, bvars, usageLog, fvars>>

\* ------------------------------------------------------------------------
\* The filter functions and the snipe loop's message history
\* ------------------------------------------------------------------------
NoCrypto == [pc |-> "idle", prices |-> <<>>, minSpreadBp |-> 0, spreads |-> <<>>]

\* the trading pairs of the quotes handed to findCryptoSpreads
QuotePairs == 1..(NumPairs + 1)

\* CryptoPrice: one quote of one exchange for one pair, in dollars
Quotes == [exchange : ExchangeIds, pair : QuotePairs, price : 100..MaxPrice]

\* prices: CryptoPrice[]
QuoteLists == UNION {[1..n -> Quotes] : n \in 0..MaxQuotes}

\* minSpreadPercent in hundredths of a percent
Thresholds == {50, 150}

\* the keys of byPair in insertion order: the index of the first quote of each pair
PairOrder(prices) ==
  SelectSeq([i \in 1..Len(prices) |-> i],
            LAMBDA i : \A j \in 1..(i - 1) : prices[j].pair # prices[i].pair)

\* byPair.get(pair): the quotes of the pair in input order
byPair(prices, pair) == SelectSeq(prices, LAMBDA q : q.pair = pair)

\* the record pushed for two quotes a (earlier) and b (later) of one pair
SpreadOf(pair, a, b) ==
  LET low  == IF a.price < b.price THEN a ELSE b
      high == IF a.price < b.price THEN b ELSE a
  IN  [pair |-> pair, buyExchange |-> low.exchange, buyPrice |-> low.price,
       sellExchange |-> high.exchange, sellPrice |-> high.price,
       spreadAmount |-> high.price - low.price]

\* spreadPercent >= minSpreadPercent, spreadPercent being spreadAmount / buyPrice * 100
AtLeast(sp, minSpreadBp) == sp.spreadAmount * 10000 >= minSpreadBp * sp.buyPrice

\* the loops over i and j = i + 1.. of one pair's quotes
RECURSIVE PairLoop(_, _, _, _, _, _)
PairLoop(pair, exchangePrices, minSpreadBp, i, j, spreads) ==
  IF i > Len(exchangePrices) THEN spreads
  ELSE IF j > Len(exchangePrices)
  THEN PairLoop(pair, exchangePrices, minSpreadBp, i + 1, i + 2, spreads)
  ELSE LET sp == SpreadOf(pair, exchangePrices[i], exchangePrices[j])
       IN  PairLoop(pair, exchangePrices, minSpreadBp, i, j + 1,
                    IF AtLeast(sp, minSpreadBp) THEN Append(spreads, sp) ELSE spreads)

\* the loop over the pairs of byPair
RECURSIVE PairsLoop(_, _, _, _, _)
PairsLoop(prices, order, minSpreadBp, k, spreads) ==
  IF k > Len(order) THEN spreads
  ELSE LET pair == prices[order[k]].pair
       IN  PairsLoop(prices, order, minSpreadBp, k + 1,
                     PairLoop(pair, byPair(prices, pair), minSpreadBp, 1, 2, spreads))

compareSpreads_Ascending(a, b) == a.spreadAmount * b.buyPrice - b.spreadAmount * a.buyPrice

\* (a, b) => b.spreadPercent - a.spreadPercent, by its sign
compareSpreads(a, b) == b.spreadAmount * a.buyPrice - a.spreadAmount * b.buyPrice

\* Array.prototype.sort with that comparator: a stable sort
RECURSIVE sortSpreads(_)
sortSpreads(spreads) ==
  IF Len(spreads) <= 1 THEN spreads
  ELSE LET x      == spreads[Len(spreads)]
           sorted == sortSpreads(SubSeq(spreads, 1, Len(spreads) - 1))
           before == SelectSeq(sorted, LAMBDA e : compareSpreads(e, x) <= 0)
           after  == SelectSeq(sorted, LAMBDA e : compareSpreads(e, x) > 0)
       IN  before \o <<x>> \o after

\* findCryptoSpreads(prices, minSpreadPercent) with the order of its result
findCryptoSpreadsSorted(prices, minSpreadBp) ==
  sortSpreads(PairsLoop(prices, PairOrder(prices), minSpreadBp, 1, <<>>))

\* findCryptoSpreads is called
CallFindCryptoSpreads(prices, minSpreadBp) ==
  [pc |-> "called", prices |-> prices, minSpreadBp |-> minSpreadBp, spreads |-> <<>>]

\* findCryptoSpreads returns
FindCryptoSpreadsReturns ==
  /\ crypto.pc = "called"
  /\ crypto' = [crypto EXCEPT !.pc = "returned",
                              !.spreads = findCryptoSpreadsSorted(crypto.prices,
                                                                  crypto.minSpreadBp)]
  /\ UNCHANGED <<qvars, bvars, rvars, usageLog, filter, lookup, snipe>>

NoFilter == [pc |-> "idle", agent |-> "", allLeads |-> <<>>, created |-> <<>>,
             leadsWithPrices |-> <<>>, listingUrlLeads |-> <<>>, k |-> 0,
             dealLeads |-> <<>>, bookLeads |-> 0, qualifiedLeads |-> <<>>,
             bookQualifiedLeads |-> <<>>, collectiblesDirectLeads |-> <<>>,
             allQualified |-> <<>>]

\* the agent types whose runs have a filter phase over leads of these kinds
FilterAgents == {"listings", "retail", "collectibles", "books"}

\* agentConfig.minProfitCents when the user configured none (runner.ts 127-378)
minProfitCents(agentType) ==
  CASE agentType \in {"listings", "auctions", "retail", "collectibles"} -> 1000
    [] agentType = "tickets" -> 1500
    [] agentType = "books" -> 500
    [] OTHER -> 2000

\* agentConfig.minSpreadPercent of the agent types other than crypto
minSpreadPercent(agentType) ==
  CASE agentType \in {"listings", "auctions", "tickets", "collectibles"} -> 15
    [] agentType \in {"retail", "books"} -> 20
    [] OTHER -> 30

\* ScoutLead as the filter reads it: source, priceFound in cents (0: none),
\* isListingUrl(url), and marketAvg of a CollectibleLead
Lead(source, priceFound, listing, marketAvg) ==
  [source |-> source, priceFound |-> priceFound, listing |-> listing, marketAvg |-> marketAvg]

\* the leads the sources of an agent type can return
LeadKinds(agentType) ==
  {Lead("tavily", 0, TRUE, 0), Lead("tavily", 2000, FALSE, 0)}
  \cup (IF agentType = "listings" THEN {Lead("craigslist", 4000, TRUE, 0)} ELSE {})
  \cup (IF agentType = "collectibles"
        THEN {Lead("Discogs", 10000, TRUE, 0), Lead("StockX", 10000, TRUE, 13000)}
        ELSE {})

\* ResalePriceInfo, or no entry in the map
NoInfo == [estimatedPrice |-> 0, priceType |-> "none"]

\* what batchResaleLookup can store for a lead bought at buyPriceCents: nothing,
\* 'research_needed' with price 0, or the median of listing prices between a
\* tenth and twenty times the buy price and at least 5% away from it
ResaleInfos(buyPriceCents) ==
  {NoInfo, [estimatedPrice |-> 0, priceType |-> "research_needed"]}
  \cup {[estimatedPrice |-> p, priceType |-> t] :
          p \in {buyPriceCents + 500, 2 * buyPriceCents}, t \in {"verified", "estimated"}}

\* the resale maps a lookup over the given leads can return
ResaleMaps(leads, looked) ==
  {m \in [DOMAIN leads -> UNION {ResaleInfos(leads[i].priceFound) : i \in DOMAIN leads} \cup {NoInfo}] :
     \A i \in DOMAIN leads :
       IF i \in looked THEN m[i] \in ResaleInfos(leads[i].priceFound) ELSE m[i] = NoInfo}

\* Math.round(n / d) for positive n and d
RoundDiv(n, d) == (2 * n + d) \div (2 * d)

\* insertion of x into a list kept by estimatedSpread descending, after its equals
RECURSIVE sortBySpread(_)
sortBySpread(qs) ==
  IF Len(qs) <= 1 THEN qs
  ELSE LET x      == qs[Len(qs)]
           sorted == sortBySpread(SubSeq(qs, 1, Len(qs) - 1))
       IN  SelectSeq(sorted, LAMBDA e : e.estimatedSpread >= x.estimatedSpread)
             \o <<x>> \o SelectSeq(sorted, LAMBDA e : e.estimatedSpread < x.estimatedSpread)

\* [...prices].sort((a, b) => a - b)
RECURSIVE sortAscending(_)
sortAscending(ps) ==
  IF Len(ps) <= 1 THEN ps
  ELSE LET x      == ps[Len(ps)]
           sorted == sortAscending(SubSeq(ps, 1, Len(ps) - 1))
       IN  SelectSeq(sorted, LAMBDA e : e <= x) \o <<x>> \o SelectSeq(sorted, LAMBDA e : e > x)

\* QualifiedLead: prices in cents, spreadPercent as the fraction num / den
Qualified(buyPrice, buySource, sell, sellPriceType, spread, num, den, raw) ==
  [buyPrice |-> buyPrice, buySource |-> buySource, sellPriceEstimate |-> sell,
   sellPriceType |-> sellPriceType, estimatedSpread |-> spread,
   spreadPercent |-> [num |-> num, den |-> den], raw |-> raw]

\* filterLeadsWithPriceData, the loop body for the lead at index i: "rejected",
\* or the lead pushed to unresearched or to qualified (part_013 108-169)
FilterLead(i, lead, resale, minProfit, minSpread) ==
  IF lead.priceFound <= 0 THEN [to |-> "rejected"]
  ELSE IF resale.priceType = "none" THEN [to |-> "rejected"]
  ELSE IF resale.estimatedPrice = 0 \/ resale.priceType = "research_needed"
  THEN [to |-> "unresearched",
        q  |-> Qualified(lead.priceFound, lead.source, 0, "research_needed", 0, 0, 1, i)]
  ELSE LET spread == resale.estimatedPrice - lead.priceFound IN
       IF spread < minProfit THEN [to |-> "rejected"]
       ELSE IF spread * 100 < minSpread * lead.priceFound THEN [to |-> "rejected"]
       ELSE [to |-> "qualified",
             q  |-> Qualified(lead.priceFound, lead.source, resale.estimatedPrice,
                              resale.priceType, spread, spread * 100, lead.priceFound, i)]

\* filterLeadsWithPriceData(leads, resalePriceData, minProfitCents, minSpreadPercent)
\* over the leads at the given indices
RECURSIVE FilterLoop(_, _, _, _, _, _, _)
FilterLoop(leads, indices, resaleMap, minProfit, minSpread, qualified, unresearched) ==
  IF indices = <<>>
  THEN sortBySpread(qualified) \o SubSeq(unresearched, 1, IF Len(unresearched) < 5
                                                          THEN Len(unresearched) ELSE 5)
  ELSE LET i == Head(indices)
           r == FilterLead(i, leads[i], resaleMap[i], minProfit, minSpread)
       IN  FilterLoop(leads, Tail(indices), resaleMap, minProfit, minSpread,
                      IF r.to = "qualified" THEN Append(qualified, r.q) ELSE qualified,
                      IF r.to = "unresearched" THEN Append(unresearched, r.q) ELSE unresearched)

filterLeadsWithPriceData(leads, indices, resaleMap, minProfit, minSpread) ==
  FilterLoop(leads, indices, resaleMap, minProfit, minSpread, <<>>, <<>>)

\* a DealFeedItem as the extractors see it: extractDealPricePair (<<>> for
\* null, else <<dealPrice, regularPrice>>), extractAllPrices(title), the
\* percentage of an "N% off" match (0: no match), extractAllPrices(title + description)
DealItem(pricePair, titlePrices, pctOff, textPrices) ==
  [pricePair |-> pricePair, titlePrices |-> titlePrices, pctOff |-> pctOff,
   textPrices |-> textPrices]

DealItems ==
  {DealItem(<<4499, 10000>>, <<4499, 10000>>, 55, <<4499, 10000>>),
   DealItem(<<500, 1000>>, <<500>>, 0, <<500, 1000>>),
   DealItem(<<>>, <<3000, 10000>>, 0, <<3000, 10000>>),
   DealItem(<<>>, <<1000>>, 60, <<1000>>),
   DealItem(<<>>, <<2000>>, 0, <<2000, 2500, 9000>>),
   DealItem(<<>>, <<>>, 0, <<>>)}

\* the deal record every branch of filterDealFeedItems pushes
DealLead(dealPrice, regularPrice, num, den, item) ==
  Qualified(dealPrice, "deals", regularPrice, "estimated", regularPrice - dealPrice,
            num, den, item)

\* filterDealFeedItems, the loop body for one item: <<>> or the lead it pushes
\* (part_013 244-373)
FilterDealItem(item, minDiscountPercent) ==
  IF item.pricePair # <<>>
  THEN LET dealPrice    == item.pricePair[1]
           regularPrice == item.pricePair[2]
       IN  IF (regularPrice - dealPrice) * 100 >= minDiscountPercent * regularPrice
           THEN <<DealLead(dealPrice, regularPrice, (regularPrice - dealPrice) * 100,
                           regularPrice, item)>>
           ELSE <<>>
  ELSE LET sorted2 == sortAscending(item.titlePrices)
           two == /\ Len(item.titlePrices) = 2
                  /\ sorted2[2] > sorted2[1] /\ sorted2[1] > 0
                  /\ (sorted2[2] - sorted2[1]) * 100 >= minDiscountPercent * sorted2[2]
           pct == /\ item.pctOff # 0 /\ Len(item.titlePrices) = 1
                  /\ item.pctOff >= minDiscountPercent /\ item.pctOff < 95
                  /\ RoundDiv(item.titlePrices[1] * 100, 100 - item.pctOff) > item.titlePrices[1]
                  /\ item.titlePrices[1] > 0
       IN  IF two
           THEN <<DealLead(sorted2[1], sorted2[2], (sorted2[2] - sorted2[1]) * 100,
                           sorted2[2], item)>>
           ELSE IF pct
           THEN <<DealLead(item.titlePrices[1],
                           RoundDiv(item.titlePrices[1] * 100, 100 - item.pctOff),
                           item.pctOff, 1, item)>>
           ELSE IF Len(item.textPrices) >= 2 /\ Len(item.titlePrices) >= 1
           THEN LET dealPrice == item.titlePrices[1]
                    others    == sortAscending(SelectSeq(item.textPrices,
                                                         LAMBDA p : p # dealPrice /\ p > dealPrice))
                IN  IF others = <<>> THEN <<>>
                    ELSE LET regularPrice == others[(Len(others) \div 2) + 1] IN
                         IF (regularPrice - dealPrice) * 100 >= minDiscountPercent * regularPrice
                            /\ dealPrice > 0
                         THEN <<DealLead(dealPrice, regularPrice,
                                         (regularPrice - dealPrice) * 100, regularPrice, item)>>
                         ELSE <<>>
           ELSE <<>>

\* filterDealFeedItems(items, minDiscountPercent)
RECURSIVE DealLoop(_, _, _)
DealLoop(items, minDiscountPercent, qualified) ==
  IF items = <<>> THEN sortBySpread(qualified)
  ELSE DealLoop(Tail(items), minDiscountPercent,
                qualified \o FilterDealItem(Head(items), minDiscountPercent))

filterDealFeedItems(items, minDiscountPercent) == DealLoop(items, minDiscountPercent, <<>>)

\* what one book lookup of batchBookResaleLookup finds: the median of the prices
\* between $5 and $500 in its results (0: none, or the request failed) and
\* whether a listing URL with two prices or more backs it
BookFindings ==
  {[sellEstimate |-> 0, verified |-> FALSE]}
  \cup {[sellEstimate |-> p, verified |-> v] : p \in {600, 1500}, v \in BOOLEAN}

\* batchBookResaleLookup, the loop body for one book (part_013 633-676)
QualifyBook(found, minProfit) ==
  LET estimatedBuyPrice == 200
      spread == found.sellEstimate - estimatedBuyPrice
  IN  IF found.sellEstimate = 0 THEN <<>>
      ELSE IF spread < minProfit THEN <<>>
      ELSE <<Qualified(estimatedBuyPrice, "Thrift/Library Sale", found.sellEstimate,
                       IF found.verified THEN "verified" ELSE "estimated",
                       spread, spread * 100, estimatedBuyPrice, "book")>>

\* qualifyCollectiblesDirectly, the loop body for the lead at index i (part_013 710-773)
QualifyCollectible(i, lead, minProfit) ==
  IF lead.priceFound <= 0 THEN <<>>
  ELSE LET buyPrice == lead.priceFound
           stockx   == lead.source = "StockX"
           marketPrice == IF lead.marketAvg # 0 THEN lead.marketAvg ELSE buyPrice
           sellEstimate == IF lead.source = "Discogs" THEN RoundDiv(buyPrice * 15, 10)
                           ELSE IF stockx THEN marketPrice
                           ELSE RoundDiv(buyPrice * 13, 10)
           fees == IF stockx THEN RoundDiv(sellEstimate * 95, 1000)
                   ELSE RoundDiv(sellEstimate * 1313, 10000)
           shipping == IF stockx THEN 0 ELSE 800
           netSpread == sellEstimate - buyPrice - fees - shipping
       IN  IF stockx /\ ~(marketPrice * 10 > buyPrice * 12) THEN <<>>
           ELSE IF netSpread < minProfit THEN <<>>
           ELSE <<Qualified(buyPrice, lead.source, sellEstimate,
                            IF stockx THEN "verified" ELSE "estimated",
                            netSpread, netSpread * 100, buyPrice, i)>>

\* qualifyCollectiblesDirectly(leads, minProfitCents) over the leads at the indices
RECURSIVE CollectiblesLoop(_, _, _, _)
CollectiblesLoop(leads, indices, minProfit, qualified) ==
  IF indices = <<>> THEN sortBySpread(qualified)
  ELSE CollectiblesLoop(leads, Tail(indices), minProfit,
                        qualified \o QualifyCollectible(Head(indices), leads[Head(indices)],
                                                        minProfit))

HasPrice(lead) == lead.priceFound > 0

\* allLeads.filter(l => l.priceFound && l.priceFound > 0), as indices into allLeads
leadsWithPrices(leads) ==
  SelectSeq([i \in 1..Len(leads) |-> i], LAMBDA i : HasPrice(leads[i]))

\* allLeads.filter(l => !l.priceFound || l.priceFound <= 0), as indices
leadsWithoutPrices(leads) ==
  SelectSeq([i \in 1..Len(leads) |-> i], LAMBDA i : ~HasPrice(leads[i]))

\* the leads the collectibles sources returned, as indices
collectiblesLeads(leads) ==
  SelectSeq([i \in 1..Len(leads) |-> i], LAMBDA i : leads[i].source \in {"Discogs", "StockX"})

\* the merge of the qualified lists that ends the filter phase; the collectibles
\* leads are qualified directly when the resale check kept none of them
\* (runner.ts 886-908)
HandToSnipe(f) ==
  LET collectibles == collectiblesLeads(f.allLeads)
      inQualified == \E n \in DOMAIN f.qualifiedLeads :
                        f.qualifiedLeads[n].buySource \in {"Discogs", "StockX"}
      direct == IF f.agent = "collectibles" /\ collectibles # <<>> /\ ~inQualified
                THEN CollectiblesLoop(f.allLeads, collectibles, minProfitCents(f.agent), <<>>)
                ELSE <<>>
      merged == f.qualifiedLeads \o f.dealLeads \o f.bookQualifiedLeads \o direct
  IN  [f EXCEPT !.pc = "handed", !.collectiblesDirectLeads = direct,
                !.allQualified = SubSeq(merged, 1, IF Len(merged) < 25 THEN Len(merged) ELSE 25)]

\* after the direct lookups: the second resale lookup, if any lead has a price
AfterDirect(f) ==
  IF f.leadsWithPrices # <<>> THEN [f EXCEPT !.pc = "resale2"]
  ELSE IF f.bookLeads > 0 THEN [f EXCEPT !.pc = "books"]
  ELSE HandToSnipe(f)

\* after the first resale check: the direct lookups for listing URLs without a
\* price (runner.ts 808-815), then the books, then the merge
AfterResale(f) ==
  LET unpriced == leadsWithoutPrices(f.allLeads)
      listing == SelectSeq(unpriced, LAMBDA i : f.allLeads[i].listing)
      listingUrlLeads == SubSeq(listing, 1, IF Len(listing) < 8 THEN Len(listing) ELSE 8)
  IN  IF unpriced # <<>> /\ Len(f.qualifiedLeads) < 10 /\ listingUrlLeads # <<>>
      THEN [f EXCEPT !.pc = "direct", !.listingUrlLeads = listingUrlLeads, !.k = 1]
      ELSE IF f.bookLeads > 0 THEN [f EXCEPT !.pc = "books"]
      ELSE HandToSnipe(f)

\* the filter phase begins: the sources have returned allLeads, the deal items
\* (filtered at once, runner.ts 709) and the book leads (runner.ts 760-790)
StartFilter(agentType, allLeads, items, bookLeads) ==
  LET f == [NoFilter EXCEPT !.agent = agentType, !.allLeads = allLeads, !.created = allLeads,
                            !.leadsWithPrices = leadsWithPrices(allLeads),
                            !.dealLeads = filterDealFeedItems(items, 25),
                            !.bookLeads = bookLeads]
  IN  IF f.leadsWithPrices # <<>> THEN [f EXCEPT !.pc = "resale"] ELSE AfterResale(f)

\* batchResaleLookup returns and filterLeadsWithPriceData runs over allLeads
\* (runner.ts 790-797)
ResaleLookupReturns(resaleData) ==
  /\ filter.pc = "resale"
  /\ filter' = AfterResale(
                 [filter EXCEPT !.qualifiedLeads =
                    filterLeadsWithPriceData(filter.allLeads,
                                             [i \in 1..Len(filter.allLeads) |-> i], resaleData,
                                             minProfitCents(filter.agent),
                                             minSpreadPercent(filter.agent))])
  /\ UNCHANGED <<qvars, bvars, rvars, usageLog, crypto, lookup, snipe>>

\* one direct lookup returns: answerPrice is the price extracted from the answer,
\* 0 when the request failed or the answer holds none (runner.ts 817-843)
DirectLookupReturns(answerPrice) ==
  /\ filter.pc = "direct"
  /\ LET i  == filter.listingUrlLeads[filter.k]
         f1 == IF answerPrice > 0
               THEN [filter EXCEPT !.allLeads[i].priceFound = answerPrice,
                                   !.leadsWithPrices = Append(@, i)]
               ELSE filter
     IN filter' = IF filter.k < Len(filter.listingUrlLeads)
                  THEN [f1 EXCEPT !.k = @ + 1]
                  ELSE AfterDirect(f1)
  /\ UNCHANGED <<qvars, bvars, rvars, usageLog, crypto, lookup, snipe>>

\* the second batchResaleLookup returns; the newly qualified leads whose buyUrl
\* is not yet in qualifiedLeads are added (runner.ts 846-864)
SecondLookupReturns(newResaleData) ==
  /\ filter.pc = "resale2"
  /\ LET priced == leadsWithPrices(filter.allLeads)
         newQualified == filterLeadsWithPriceData(filter.allLeads, priced, newResaleData,
                                                  minProfitCents(filter.agent),
                                                  minSpreadPercent(filter.agent))
         existingUrls == {filter.qualifiedLeads[n].raw : n \in DOMAIN filter.qualifiedLeads}
         f1 == [filter EXCEPT !.qualifiedLeads =
                  @ \o SelectSeq(newQualified, LAMBDA q : q.raw \notin existingUrls)]
     IN filter' = IF f1.bookLeads > 0 THEN [f1 EXCEPT !.pc = "books"] ELSE HandToSnipe(f1)
  /\ UNCHANGED <<qvars, bvars, rvars, usageLog, crypto, lookup, snipe>>

\* batchBookResaleLookup returns (runner.ts 873-877), here for one book
BookLookupReturns(found) ==
  /\ filter.pc = "books"
  /\ filter' = HandToSnipe([filter EXCEPT !.bookQualifiedLeads =
                              QualifyBook(found, minProfitCents(filter.agent))])
  /\ UNCHANGED <<qvars, bvars, rvars, usageLog, crypto, lookup, snipe>>

NoLookup == [pc |-> "idle", titles |-> <<>>, i |-> 0, consecutiveErrors |-> 0,
             resaleMap |-> {}, trail |-> <<>>]

\* const cap = 25
cap == 25

\* how one request to the search provider ends: a 2xx response, a 429 or 433, a
\* 5xx, another non-2xx status, or an exception (timeout, network error)
FetchOutcomes == {"ok", "rate_limited", "server_error", "client_error", "exception"}

\* response.status === 429 || response.status === 433 || response.status >= 500
CountsAsError(outcome) == outcome \in {"rate_limited", "server_error"}

\* batchResaleLookup is called with leads that have a price; titles[k] is FALSE
\* when cleanTitleForSearch leaves fewer than 5 characters of the k-th title
CallBatchResaleLookup(titles) ==
  [pc |-> "loop", titles |-> titles, i |-> 0, consecutiveErrors |-> 0, resaleMap |-> {},
   trail |-> <<>>]

\* the for loop is left: its condition fails, or 3 consecutive errors were counted
LoopEnds(l) == ~(l.i < Len(l.titles) /\ l.i < cap) \/ l.consecutiveErrors >= 3

\* one iteration whose title is too short: continue, no request
LookupSkips ==
  /\ lookup.pc = "loop" /\ ~LoopEnds(lookup)
  /\ ~lookup.titles[lookup.i + 1]
  /\ lookup' = [lookup EXCEPT !.i = @ + 1, !.trail = Append(@, "skipped")]
  /\ UNCHANGED <<qvars, bvars, rvars, usageLog, crypto, filter, snipe>>

\* one iteration with its request to the provider and what follows from its outcome
LookupRequest(outcome) ==
  /\ lookup.pc = "loop" /\ ~LoopEnds(lookup)
  /\ lookup.titles[lookup.i + 1]
  /\ lookup' = [lookup EXCEPT
                  !.i = @ + 1,
                  !.trail = Append(@, outcome),
                  !.consecutiveErrors = IF outcome = "ok" THEN 0
                                        ELSE IF outcome # "exception" /\ CountsAsError(outcome)
                                        THEN @ + 1 ELSE @,
                  !.resaleMap = IF outcome = "ok" THEN @ \cup {lookup.i + 1} ELSE @]
  /\ UNCHANGED <<qvars, bvars, rvars, usageLog, crypto, filter, snipe>>

\* return resaleMap
LookupReturns ==
  /\ lookup.pc = "loop" /\ LoopEnds(lookup)
  /\ lookup' = [lookup EXCEPT !.pc = "returned"]
  /\ UNCHANGED <<qvars, bvars, rvars, usageLog, crypto, filter, snipe>>

NoSnipe == [pc |-> "idle", tools |-> FALSE, messages |-> <<>>, toolCallsUsed |-> 0,
            loop |-> 0, toolUseBlocks |-> <<>>, toolResults |-> <<>>, nextId |-> 0]

\* content blocks of a ClaudeMessage
TextBlock == [type |-> "text"]

ToolUse(id) == [type |-> "tool_use", id |-> id]

\* response.content.filter(b => b.type === 'tool_use') (runner.ts 1089)
ToolUsesOf(content) == SelectSeq(content, LAMBDA b : b.type = "tool_use")

\* the contents callClaude can return: text alone, or up to MaxBlocks tool_use
\* blocks with ids the API has not issued before, with or without a text block
\* in front, when the request offered the tool
ResponseContents(offered, nextId) ==
  {<<TextBlock>>}
  \cup (IF offered
        THEN {lead \o [n \in 1..m |-> ToolUse(nextId + n)] :
                lead \in {<<>>, <<TextBlock>>}, m \in 1..MaxBlocks}
        ELSE {})

\* the loop starts: messages holds the user message with the leads (runner.ts 1064-1070)
StartSnipeLoop(needsResearch) ==
  [NoSnipe EXCEPT !.pc = "call", !.tools = needsResearch,
                  !.messages = <<[role |-> "user", content |-> <<TextBlock>>]>>]

\* a loop that pushes no tool_result when the search threw
PushToolResult_DropOnError(toolResults, block, failed) ==
  IF failed THEN toolResults
  ELSE Append(toolResults, [type |-> "tool_result", tool_use_id |-> block.id,
                            content |-> "results"])

\* the tool result pushed for one tool_use block; resultText is
\* 'Error: search failed' when searchSoldPrices threw (runner.ts 1111-1122)
PushToolResult(toolResults, block, failed) ==
  Append(toolResults, [type |-> "tool_result", tool_use_id |-> block.id,
                       content |-> IF failed THEN "Error: search failed" ELSE "results"])

\* callClaude returns: the response is final, or its content becomes an
\* assistant message and its tool calls are run (runner.ts 1073-1100)
CallClaudeReturns(content) ==
  /\ snipe.pc = "call"
  /\ snipe' =
       IF ToolUsesOf(content) = <<>> \/ snipe.toolCallsUsed >= maxToolCalls
       THEN [snipe EXCEPT !.pc = "done"]
       ELSE [snipe EXCEPT !.pc = "tools",
                          !.messages = Append(@, [role |-> "assistant", content |-> content]),
                          !.toolUseBlocks = ToolUsesOf(content),
                          !.toolResults = <<>>,
                          !.nextId = @ + Len(ToolUsesOf(content))]
  /\ UNCHANGED <<qvars, bvars, rvars, usageLog, crypto, filter, lookup>>

\* callClaude or recordUsage throws: the loop is left through the catch block
\* (runner.ts 1158-1176)
CallClaudeThrows ==
  /\ snipe.pc = "call"
  /\ snipe' = [snipe EXCEPT !.pc = "failed"]
  /\ UNCHANGED <<qvars, bvars, rvars, usageLog, crypto, filter, lookup>>

\* searchSoldPrices settles for the first block not yet answered; after the last
\* one the results become the next user message and the loop goes on
\* (runner.ts 1101-1131, 1072)
SearchSoldPricesSettles(failed) ==
  /\ snipe.pc = "tools"
  /\ LET block   == snipe.toolUseBlocks[1]
         results == PushToolResult(snipe.toolResults, block, failed)
         s1      == [snipe EXCEPT !.toolCallsUsed = @ + 1, !.toolResults = results,
                                  !.toolUseBlocks = Tail(@)]
     IN snipe' =
          IF Len(snipe.toolUseBlocks) > 1 THEN s1
          ELSE [s1 EXCEPT !.messages = Append(@, [role |-> "user", content |-> results]),
                          !.toolResults = <<>>,
                          !.loop = @ + 1,
                          !.pc = IF snipe.loop + 1 < maxToolCalls + 1 THEN "call" ELSE "done"]
  /\ UNCHANGED <<qvars, bvars, rvars, usageLog, crypto, filter, lookup>>

\* ------------------------------------------------------------------------
\* Initial states and specifications
\* ------------------------------------------------------------------------

\* a usage file left by earlier runs: none, or one run recorded yesterday or today
InitialLedgers == {NoLedger} \cup {AddUsage(EmptyUsage(d), 1, 1) : d \in 0..1}

\* the queue module as loaded, no request yet
QueueIdle ==
  /\ activeRuns = <<>>
  /\ queue = <<>>
  /\ runIdCounter = 0
  /\ nextReq = 0
  /\ stream = [r \in Requests |-> NewStream]
  /\ position = 0
  /\ postRuns = 0

\* no call of budget.ts in progress
BudgetIdle ==
  /\ ledger = NoLedger
  /\ usageLog = NewUsageLog(NoLedger)
  /\ clock = 1
  /\ config = SmallBudget
  /\ caller = [p \in Callers |-> IdleCaller]
  /\ opsDone = 0

\* no LLM loop modelled
RunIdle ==
  /\ run = NewRun("none", FALSE)
  /\ hist = NewHist(NoLedger, 1)

\* no call of the filter functions or of the snipe loop modelled
FilterIdle ==
  /\ crypto = NoCrypto
  /\ filter = NoFilter
  /\ lookup = NoLookup
  /\ snipe = NoSnipe

Init == QueueIdle /\ BudgetIdle /\ RunIdle /\ FilterIdle

Next ==
  \/ \E t \in AgentType : StreamGet(t)
  \/ \E r \in Requests : StreamStart(r)
  \/ \E id \in DOMAIN activeRuns, o \in {"result", "throw"} : RunCompletes(id, o)

\* the stream route alone drives the queue
Spec == Init /\ [][Next]_vars

NextTriggers ==
  \/ Next
  \/ PostStart
  \/ PostFinish

\* both inbound triggers: the stream route and the POST run route
SpecTriggers == Init /\ [][NextTriggers]_vars

\* every awaited preflight returns and every started pipeline settles
SpecFair ==
  /\ Spec
  /\ WF_vars(\E r \in Requests : StreamStart(r))
  /\ WF_vars(\E id \in DOMAIN activeRuns, o \in {"result", "throw"} : RunCompletes(id, o))

InitBudget ==
  /\ QueueIdle
  /\ clock = 1
  /\ ledger \in InitialLedgers
  /\ config \in {[SmallBudget EXCEPT !.dailyTokenLimit = l] : l \in 0..MaxDailyLimit}
  /\ caller = [p \in Callers |-> IdleCaller]
  /\ opsDone = 0
  /\ usageLog = NewUsageLog(ledger)
  /\ RunIdle
  /\ FilterIdle

NextBudget ==
  \/ \E p \in Callers : CallCheckBudget(p)
  \/ \E p \in Callers : CheckBudgetReturns(p)
  \/ \E p \in Callers, i \in TokenCounts, o \in OutTokenCounts : CallRecordUsage(p, i, o)
  \/ \E p \in Callers : RecordUsageReads(p)
  \/ \E p \in Callers : RecordUsageWrites(p)
  \/ Midnight

\* concurrent runs calling checkBudget and recordUsage around UTC midnights
SpecBudget == InitBudget /\ [][NextBudget]_vars

\* one run, alone on the usage file, under any small budget configuration
InitRun ==
  /\ QueueIdle
  /\ clock = 1
  /\ ledger \in InitialLedgers
  /\ config \in {[dailyTokenLimit |-> d, perRunTokenLimit |-> t, perRunToolCallLimit |-> c] :
                    d \in {2, MaxDailyLimit + 2}, t \in {SmallBudget.perRunTokenLimit, 100},
                    c \in {SmallBudget.perRunToolCallLimit}}
  /\ caller = [p \in Callers |-> IdleCaller]
  /\ opsDone = 0
  /\ run \in {NewRun(k, n) : k \in {"snipe", "base"}, n \in BOOLEAN}
  /\ hist = NewHist(ledger, clock)
  /\ usageLog = NewUsageLog(ledger)
  /\ FilterIdle

NextRun ==
  \/ RunReadsToday
  \/ RunBudgetReturns
  \/ RunRecheckReturns
  \/ \E resp \in Responses(ToolsOffered(run)) : RunCallReturns(resp)
  \/ RunCallThrows
  \/ RunRecordReads
  \/ RunRecordWrites
  \/ RunContinue
  \/ RunToolsDone
  \/ RunMidnight

\* a single run of the snipe loop or of the base loop
SpecRun == InitRun /\ [][NextRun]_vars

\* the agent types a run is dispatched for
ScoutAgents == {VALID_AGENTS[i] : i \in DOMAIN VALID_AGENTS}

\* the responses of the snipe phase when the run is followed from its scout phase
ScoutResponses(toolsOffered) ==
  {resp \in Responses(toolsOffered) :
     /\ resp.input_tokens = 1 /\ resp.output_tokens = 1
     /\ resp.toolUses \in {0, MaxBlocks}
     /\ resp.body.json \in {"none", "array"}}

\* one run of runScoutThenSnipe at its first await, alone on the usage file
InitPipeline ==
  /\ QueueIdle
  /\ clock = 1
  /\ ledger \in InitialLedgers
  /\ config \in {[SmallBudget EXCEPT !.dailyTokenLimit = d] : d \in {2, MaxDailyLimit + 2}}
  /\ caller = [p \in Callers |-> IdleCaller]
  /\ opsDone = 0
  /\ run \in {StartScout("crypto", FALSE, m) : m \in MinSpreads}
            \cup {StartScout(a, n, 0) : a \in ScoutAgents \ {"crypto"}, n \in BOOLEAN}
  /\ hist = NewHist(ledger, clock)
  /\ usageLog = NewUsageLog(ledger)
  /\ FilterIdle

NextPipeline ==
  \/ \E prices \in PriceTables, failed \in 0..MaxFail : CryptoReturns(prices, failed)
  \/ \E out \in Outcomes(run.scout.stage) : FetchReturns(out)
  \/ TimerFires
  \/ RunReadsToday
  \/ RunBudgetReturns
  \/ \E resp \in ScoutResponses(ToolsOffered(run)) : RunCallReturns(resp)
  \/ RunCallThrows
  \/ RunRecordReads
  \/ RunRecordWrites
  \/ RunContinue
  \/ RunToolsDone

\* a whole run of runScoutThenSnipe: scout, filter, snipe
SpecPipeline == InitPipeline /\ [][NextPipeline]_vars

InitSpreads ==
  /\ QueueIdle /\ BudgetIdle /\ RunIdle
  /\ crypto \in {CallFindCryptoSpreads(prices, t) : prices \in QuoteLists, t \in Thresholds}
  /\ filter = NoFilter
  /\ lookup = NoLookup
  /\ snipe = NoSnipe

NextSpreads == FindCryptoSpreadsReturns

\* one call of findCryptoSpreads on any short list of quotes
SpecSpreads == InitSpreads /\ [][NextSpreads]_vars

InitLookup ==
  /\ QueueIdle /\ BudgetIdle /\ RunIdle
  /\ crypto = NoCrypto
  /\ filter = NoFilter
  /\ lookup \in {CallBatchResaleLookup(titles) :
                   titles \in UNION {[1..n -> BOOLEAN] : n \in 0..MaxLeads}}
  /\ snipe = NoSnipe

NextLookup ==
  \/ LookupSkips
  \/ \E outcome \in FetchOutcomes : LookupRequest(outcome)
  \/ LookupReturns

\* one call of batchResaleLookup on any short list of leads
SpecLookup == InitLookup /\ [][NextLookup]_vars

\* the lists of at most n elements of a set
ListsOf(S, n) == UNION {[1..m -> S] : m \in 0..n}

InitFilter ==
  /\ QueueIdle /\ BudgetIdle /\ RunIdle
  /\ crypto = NoCrypto
  /\ \E agentType \in FilterAgents :
       filter \in {StartFilter(agentType, allLeads, items, bookLeads) :
                     allLeads \in ListsOf(LeadKinds(agentType), MaxScout),
                     items \in IF getScoutConfig(agentType).useDealFeeds
                               THEN ListsOf(DealItems, 1) ELSE {<<>>},
                     bookLeads \in IF getScoutConfig(agentType).useOpenLibrary
                                   THEN {0, 1} ELSE {0}}
  /\ lookup = NoLookup
  /\ snipe = NoSnipe

NextFilter ==
  \/ \E resaleData \in ResaleMaps(filter.allLeads,
                                  {i \in DOMAIN filter.allLeads : HasPrice(filter.allLeads[i])}) :
       ResaleLookupReturns(resaleData)
  \/ \E answerPrice \in {0, 3000} : DirectLookupReturns(answerPrice)
  \/ \E newResaleData \in ResaleMaps(filter.allLeads,
                                     {i \in DOMAIN filter.allLeads : HasPrice(filter.allLeads[i])}) :
       SecondLookupReturns(newResaleData)
  \/ \E found \in BookFindings : BookLookupReturns(found)

\* the filter phase of one run, from the leads its sources returned to the list
\* handed to the snipe phase
SpecFilter == InitFilter /\ [][NextFilter]_vars

InitSnipeLoop ==
  /\ QueueIdle /\ BudgetIdle /\ RunIdle
  /\ crypto = NoCrypto
  /\ filter = NoFilter
  /\ lookup = NoLookup
  /\ snipe \in {StartSnipeLoop(needsResearch) : needsResearch \in BOOLEAN}

NextSnipeLoop ==
  \/ \E content \in ResponseContents(snipe.tools /\ snipe.toolCallsUsed < maxToolCalls, snipe.nextId) :
       CallClaudeReturns(content)
  \/ CallClaudeThrows
  \/ \E failed \in BOOLEAN : SearchSoldPricesSettles(failed)

\* the tool-use loop of the snipe phase with its message history
SpecSnipeLoop == InitSnipeLoop /\ [][NextSnipeLoop]_vars

\* ------------------------------------------------------------------------
\* Properties of the queue and its triggers
\* ------------------------------------------------------------------------
Running == {r \in Requests : stream[r].phase = "running"}

InQueue(q, r) == \E i \in 1..Len(q) : q[i].req = r

IsActive(a, r) == \E id \in DOMAIN a : a[id].req = r

Emitted(r, e) == \E i \in 1..Len(stream[r].events) : stream[r].events[i] = e

\* C1: the number of simultaneously active executions (entries of activeRuns,
\* execute callbacks invoked and not yet settled) never exceeds MAX_CONCURRENT
C1_AtMostTwoActive ==
  /\ ActiveCount(activeRuns) <= MAX_CONCURRENT
  /\ Cardinality(Running) <= MAX_CONCURRENT

\* both slots are taken and a further run is waiting
C1_Witness == ActiveCount(activeRuns) = MAX_CONCURRENT /\ Len(queue) > 0

\* C2: at most one entry per agent type across activeRuns and queue together,
\* and a request refused because its type is running never has execute invoked
C2_OneEntryPerType ==
  /\ \A i, j \in DOMAIN activeRuns : activeRuns[i].agentType = activeRuns[j].agentType => i = j
  /\ \A i, j \in 1..Len(queue) : queue[i].agentType = queue[j].agentType => i = j
  /\ \A i \in DOMAIN activeRuns : \A j \in 1..Len(queue) : activeRuns[i].agentType # queue[j].agentType
  /\ \A r \in Requests : stream[r].phase = "refused" =>
        /\ stream[r].invoked = 0
        /\ stream[r].started = "rejected"
        /\ ~InQueue(queue, r) /\ ~IsActive(activeRuns, r)

\* a request was refused at the queue boundary while the queue holds a waiting run
C2_Witness == (\E r \in Requests : stream[r].phase = "refused") /\ Len(queue) > 0

\* the request r calls enqueueAgentRun in this step
Enqueues(r) == stream[r].phase = "preflight" /\ stream'[r].phase # "preflight"

\* C3: enqueueing a type that has a queued entry removes that entry, rejects its
\* started promise, never invokes its execute, and leaves the new request as the
\* only entry of that type
C3_EvictStep ==
  \A r \in Requests : Enqueues(r) =>
    \A i \in 1..Len(queue) : queue[i].agentType = stream[r].agentType =>
      LET old == queue[i].req
          t   == queue[i].agentType
      IN /\ ~InQueue(queue', old) /\ ~IsActive(activeRuns', old)
         /\ stream'[old].started = "rejected"
         /\ stream'[old].invoked = 0
         /\ Cardinality({j \in 1..Len(queue') : queue'[j].agentType = t})
              + Cardinality({id \in DOMAIN activeRuns' : activeRuns'[id].agentType = t}) = 1
         /\ InQueue(queue', r) \/ IsActive(activeRuns', r)

C3_EvictedStaysOut ==
  \A r \in Requests : stream[r].phase = "evicted" =>
    /\ stream[r].started = "rejected"
    /\ stream[r].invoked = 0
    /\ ~InQueue(queue, r) /\ ~IsActive(activeRuns, r)

C3_Eviction == [][C3_EvictStep]_vars /\ []C3_EvictedStaysOut

\* an entry was evicted and the request that replaced it is still waiting
C3_Witness == \E r \in Requests : stream[r].phase = "evicted" /\ Len(queue) > 0

\* C4: when an active run settles (result or exception) its slot is released and
\* the head of the queue, if any, is started in the same step; the queue keeps
\* enqueue order and only its head is ever started (FIFO)
C4_CompletionStep ==
  \A id \in DOMAIN activeRuns :
    (stream[activeRuns[id].req].phase = "running" /\ stream'[activeRuns[id].req].phase = "finished") =>
      /\ id \notin DOMAIN activeRuns'
      /\ Len(queue) > 0 =>
            /\ IsActive(activeRuns', Head(queue).req)
            /\ stream'[Head(queue).req].invoked = 1
            /\ stream'[Head(queue).req].started = "resolved"
            /\ queue' = Tail(queue)
      /\ Len(queue) = 0 => ActiveCount(activeRuns') = ActiveCount(activeRuns) - 1

C4_FifoStep ==
  /\ \A i, j \in 1..Len(queue) : i < j =>
        \A k, l \in 1..Len(queue') :
          (queue'[k] = queue[i] /\ queue'[l] = queue[j]) => k < l
  /\ \A k \in 1..Len(queue') : ~InQueue(queue, queue'[k].req) => k = Len(queue')
  /\ \A r \in Requests :
        (stream[r].phase = "queued" /\ stream'[r].phase = "running") => Head(queue).req = r

C4_AdvanceFifo == [][C4_CompletionStep /\ C4_FifoStep]_vars

\* a queued run was started from the head of the queue while another still waits
C4_Witness ==
  \E r \in Requests :
    stream[r].phase = "running" /\ Emitted(r, "progress:queued") /\ Len(queue) > 0

\* C5 as stated: every returned position is 0 or >= 1
C5_PositionNeverNegative == position >= 0

\* C5 amended: the call returns 0 and has started the run, or returns the entry's
\* 1-based place in the queue, or returns -1 when the type is already running and
\* the run is neither started nor queued
C5_PositionStep ==
  \A r \in Requests : Enqueues(r) =>
    \/ /\ position' = 0
       /\ IsActive(activeRuns', r) /\ stream'[r].invoked = 1 /\ ~InQueue(queue', r)
    \/ /\ position' >= 1 /\ position' <= Len(queue')
       /\ queue'[position'].req = r
       /\ ~IsActive(activeRuns', r) /\ stream'[r].invoked = 0
    \/ /\ position' = -1
       /\ isAgentRunning(activeRuns, stream[r].agentType)
       /\ ~IsActive(activeRuns', r) /\ ~InQueue(queue', r) /\ stream'[r].invoked = 0
       /\ UNCHANGED <<activeRuns, queue>>

C5_Position == [][C5_PositionStep]_vars /\ [](position \in {-1} \cup (0..MaxReq))

\* the latest call queued its run second in line
C5_Witness == position = 2 /\ Len(queue) = 2

\* C6: every stream that emitted 'connected' eventually emits exactly one 'done',
\* and 'done' is its last event
C6_DoneOnceAndLast ==
  \A r \in Requests :
    /\ Cardinality({i \in 1..Len(stream[r].events) : stream[r].events[i] = "done"}) <= 1
    /\ Emitted(r, "done") => stream[r].events[Len(stream[r].events)] = "done"

C6_AlwaysDone ==
  /\ []C6_DoneOnceAndLast
  /\ \A r \in Requests : Emitted(r, "connected") ~> Emitted(r, "done")

\* C7: every pipeline execution is started through the queue, so that across the
\* stream route and the POST route together at most 2 are in progress
C7_PipelinesCapped == Cardinality(Running) + postRuns <= MAX_CONCURRENT

\* ------------------------------------------------------------------------
\* Properties of the budget ledger
\* ------------------------------------------------------------------------

\* the total recorded in the usage file for the given UTC day
TodayTotal(file, day) == IF file.ok /\ file.date = day THEN file.totalTokens ELSE 0

\* C8: checkBudget returns allowed=false exactly when the total recorded for the
\* current UTC date is >= dailyTokenLimit, used is that total, remaining is
\* max(0, dailyTokenLimit - used), and the ledger is not modified
C8_CheckStep ==
  \A p \in Callers :
    /\ (caller[p].pc = "idle" /\ caller'[p].pc = "cb_file") => ledger' = ledger
    /\ (caller[p].pc = "cb_file" /\ caller'[p].pc = "idle") =>
         LET total == TodayTotal(ledger, caller[p].today)
             limit == config.dailyTokenLimit
             res   == caller'[p].result
         IN /\ (res.allowed = FALSE) <=> (total >= limit)
            /\ res.used = total
            /\ res.remaining = (IF limit - total > 0 THEN limit - total ELSE 0)
            /\ res.limit = limit
            /\ ledger' = ledger

C8_CheckBudget == [][C8_CheckStep]_vars

\* a check was refused on real usage, and another was allowed
C8_Witness ==
  \E p, q \in Callers :
    /\ caller[p].returned /\ ~caller[p].result.allowed /\ caller[p].result.used > 0
    /\ caller[q].returned /\ caller[q].result.allowed /\ caller[q].result.used > 0

\* C9: over any interleaving of checkBudget and recordUsage calls around a UTC
\* midnight the ledger resets exactly once for the new day: the persisted date
\* never goes back, and a write that starts from a new-day reset (budget.ts 68-70)
\* never replaces a ledger that already carries usage of that day
C9_ResetStep ==
  (ledger.ok /\ ledger' # ledger) =>
    /\ ledger'.date >= ledger.date
    /\ \A p \in Callers :
         (caller[p].pc = "ru_write" /\ caller'[p].pc = "idle" /\ caller[p].reset) =>
           ledger.date < ledger'.date

C9_ResetOncePerDay == [][C9_ResetStep]_vars

\* ------------------------------------------------------------------------
\* Properties of the LLM loops
\* ------------------------------------------------------------------------

\* C10: recordUsage for a response completes after that LLM call returns and
\* before the next LLM call or any return, so when the k-th call fails the
\* ledger holds the usage of the first k-1 calls (the run being the only writer)
C10_RecordedBeforeNext ==
  /\ run.pc \in {"call", "returned"} =>
        /\ hist.recorded = hist.calls
        /\ IF hist.recorded = 0 THEN ledger = hist.init
           ELSE /\ ledger.ok
                /\ ledger.totalTokens =
                     TodayTotal(hist.init, ledger.date) + hist.recOnDay[ledger.date]
  /\ (run.pc = "returned" /\ run.result.error) =>
        /\ hist.failedAt = hist.calls + 1
        /\ clock = hist.startDay =>
              TodayTotal(ledger, clock) =
                TodayTotal(hist.init, clock)
                  + run.result.totalInputTokens + run.result.totalOutputTokens

\* the third LLM call of a run failed after two calls were recorded the same day
C10_Witness ==
  /\ run.pc = "returned" /\ run.result.error
  /\ hist.failedAt = 3 /\ hist.recorded = 2
  /\ clock = hist.startDay
  /\ ledger.totalTokens > TodayTotal(hist.init, clock)

\* tokens this run has recorded in the ledger, over all UTC days
RECURSIVE RecordedUpTo(_)
RecordedUpTo(d) == IF d < 0 THEN 0 ELSE hist.recOnDay[d] + RecordedUpTo(d - 1)

RecordedByRun == RecordedUpTo(MaxDay)

\* C11: when the first daily-budget check of a run finds the total recorded for
\* the day it read at or above the daily ceiling, the run returns at once with
\* success=false, no opportunities, zero token counts, abortReason set and error
\* not set, having issued no LLM call and recorded no usage
C11_AbortStep ==
  (run.pc = "budget_file" /\ run'.pc # "budget_file"
     /\ TodayTotal(ledger, run.today) >= config.dailyTokenLimit) =>
       /\ run'.pc = "returned"
       /\ run'.result = [NoResult EXCEPT !.abortReason = TRUE]
       /\ hist' = hist /\ hist.issued = 0 /\ hist.recorded = 0
       /\ ledger' = ledger

C11_DailyAbort ==
  /\ [][C11_AbortStep]_vars
  /\ [](run.result.abortReason =>
          /\ run.pc = "returned" /\ ~run.result.success /\ ~run.result.error
          /\ hist.issued = 0 /\ RecordedByRun = 0 /\ ledger = hist.init)

\* a snipe run was aborted because today's ledger already held the daily ceiling
C11_Witness ==
  /\ run.kind = "snipe" /\ run.pc = "returned" /\ run.result.abortReason
  /\ hist.init.ok /\ hist.init.date = run.today
  /\ hist.init.totalTokens >= config.dailyTokenLimit

\* C12: no LLM call is issued once the run's accumulated tokens have reached
\* perRunTokenLimit or its tool calls have reached perRunToolCallLimit
C12_RunLimitsEnforced ==
  run.pc = "call" =>
    /\ run.totalInputTokens + run.totalOutputTokens < config.perRunTokenLimit
    /\ run.toolCalls < config.perRunToolCallLimit

\* the condition of runner.ts 1090 under which a response ends the snipe loop
IsFinalResponse(r) == r.response.toolUses = 0 \/ r.toolCalls >= maxToolCalls

\* C13: the snipe loop issues at most maxToolCalls + 1 LLM calls, it ends at the
\* first response that has no tool_use block or arrives once the tool-call cap
\* is reached and at no other response, and on every return without an exception
\* the last response received is the one parsed for opportunities
C13_ContinueStep ==
  (run.kind = "snipe" /\ run.pc = "recorded" /\ run'.pc # "recorded") =>
     IF IsFinalResponse(run)
     THEN run'.pc = "returned" /\ run'.result.success /\ hist' = hist
     ELSE run'.pc = "tools"

C13_Bounded ==
  run.kind = "snipe" =>
    /\ hist.issued <= maxToolCalls + 1
    /\ (run.pc = "returned" /\ run.result.success) =>
          /\ hist.calls = hist.issued /\ hist.calls >= 1
          /\ run.finalResponse /\ IsFinalResponse(run)
          /\ run.result.opportunities = parseOpportunities(run.response)

C13_SnipeLoopEnds == [][C13_ContinueStep]_vars /\ []C13_Bounded

\* a snipe run used all six LLM calls and returned what the sixth response held
C13_Witness ==
  /\ run.kind = "snipe" /\ run.pc = "returned" /\ run.result.success
  /\ hist.issued = maxToolCalls + 1 /\ run.result.opportunities = MaxOpps

\* C14: a parsed response without an <opportunities> block, or whose block is
\* not parsable JSON or not an array, gives success=true with no opportunities
\* and no error, and the result counts the tokens of every LLM call made, which
\* are the tokens the run recorded in the ledger
C14_MalformedOutput ==
  (run.pc = "returned" /\ run.result.success /\ ParsedResponse(run)
     /\ (~run.response.body.block \/ run.response.body.json # "array")) =>
       /\ run.result.opportunities = 0
       /\ ~run.result.error /\ ~run.result.abortReason
       /\ run.result.totalInputTokens = hist.inputTokens
       /\ run.result.totalOutputTokens = hist.outputTokens
       /\ hist.inputTokens + hist.outputTokens = RecordedByRun
       /\ RecordedByRun > 0

\* a snipe run whose final response held a JSON object instead of an array
C14_Witness ==
  /\ run.kind = "snipe" /\ run.pc = "returned" /\ run.result.success
  /\ run.finalResponse /\ run.response.body.json = "object"
  /\ hist.calls = 2 /\ RecordedByRun >= 2

\* C15: when the k-th LLM call of a run throws, no further call is issued, and
\* the run returns success=false with the error, no opportunities and the token
\* sums of the k-1 calls that returned, which are what the run has recorded
C15_CallFailure ==
  (run.pc = "returned" /\ run.result.error) =>
     /\ hist.failedAt >= 1 /\ hist.issued = hist.failedAt
     /\ hist.calls = hist.failedAt - 1 /\ hist.recorded = hist.calls
     /\ ~run.result.success /\ ~run.result.abortReason
     /\ run.result.opportunities = 0
     /\ run.result.totalInputTokens = hist.inputTokens
     /\ run.result.totalOutputTokens = hist.outputTokens
     /\ hist.inputTokens + hist.outputTokens = RecordedByRun

\* the second LLM call of a run failed after the first one was recorded
C15_Witness ==
  /\ run.pc = "returned" /\ run.result.error
  /\ hist.failedAt = 2 /\ hist.inputTokens = MaxTokens /\ RecordedByRun > MaxTokens

\* ------------------------------------------------------------------------
\* Properties of the scout, filter and snipe phases of one run
\* ------------------------------------------------------------------------

\* the result of the two returns that follow no LLM call and no budget check
NoLlmFootprint ==
  /\ hist.issued = 0 /\ hist.calls = 0 /\ hist.budgetChecks = 0
  /\ RecordedByRun = 0 /\ ledger = hist.init

\* C16: when the merged list of qualified leads of a non-crypto run is empty,
\* the run returns at the merge with success=true, no opportunities, a non-empty
\* reasoning and zero tokens and cost, without LLM call, budget check or usage
\* record
C16_MergeStep ==
  \A out \in Outcomes(run.scout.stage) :
    (/\ FetchReturns(out)
     /\ NextStageFrom(Absorb(run.scout, out), StageIndex(run.scout.stage) + 1) = "merge"
     /\ ~HasQualified(Absorb(run.scout, out))) =>
       /\ run'.pc = "returned"
       /\ run'.result = [NoResult EXCEPT !.success = TRUE, !.reasoning = TRUE]
       /\ NoLlmFootprint'

C16_ZeroLeads ==
  /\ [][C16_MergeStep]_vars
  /\ []((run.pc = "returned" /\ run.scout.stage = "merged") =>
          /\ run.scout.agent # "crypto" /\ ~HasQualified(run.scout)
          /\ run.result.success /\ ~run.result.error /\ ~run.result.abortReason
          /\ run.result.opportunities = 0 /\ run.result.reasoning
          /\ run.result.totalInputTokens = 0 /\ run.result.totalOutputTokens = 0
          /\ run.result.estimatedCost = 0
          /\ NoLlmFootprint)

\* a listings run whose priced leads all failed the resale check
C16_Witness ==
  /\ run.pc = "returned" /\ run.scout.stage = "merged" /\ run.scout.agent = "listings"
  /\ run.scout.priced /\ {"craigslist", "tavily", "resale"} \subseteq hist.fetched
  /\ run.result.success

\* the number of spreads the quotes hold: two quotes of one pair whose relative
\* difference is at least the threshold
ExpectedSpreads(prices, minSpreadBp) ==
  Cardinality({t \in Pairs \X ExchangeIds \X ExchangeIds :
                 /\ t[2] < t[3]
                 /\ prices[t[1]][t[2]] > 0 /\ prices[t[1]][t[3]] > 0
                 /\ LET a == prices[t[1]][t[2]]
                        b == prices[t[1]][t[3]]
                    IN  IF a < b THEN (b - a) * 10000 >= minSpreadBp * a
                        ELSE (a - b) * 10000 >= minSpreadBp * b})

\* two exchanges quote the pair 2% apart and nothing else is quoted
TwoPercentOnOnePair(prices) ==
  \E p \in Pairs, i, j \in ExchangeIds :
    /\ i # j /\ prices[p][i] = 100 /\ prices[p][j] = 102
    /\ \A q \in Pairs, e \in ExchangeIds : (q # p \/ e \notin {i, j}) => prices[q][e] = 0

\* C17: a crypto run awaits only the exchange fetch and returns right after the
\* spread detection with success=true, zero tokens, one opportunity per detected
\* spread, each with sellPriceType 'verified', without LLM call, budget check or
\* usage record; two exchanges 2% apart on one pair give exactly one opportunity
C17_CryptoShortCircuit ==
  run.scout.agent = "crypto" =>
    /\ run.pc \in {"fetch", "returned"}
    /\ hist.fetched \subseteq {"crypto"}
    /\ NoLlmFootprint
    /\ run.pc = "returned" =>
         /\ run.result.success /\ ~run.result.error /\ ~run.result.abortReason
         /\ run.result.totalInputTokens = 0 /\ run.result.totalOutputTokens = 0
         /\ run.result.totalToolCalls = 0 /\ run.result.estimatedCost = 0
         /\ run.result.opportunities = ExpectedSpreads(hist.prices, run.scout.minSpreadBp)
         /\ Cardinality(hist.spreads) = run.result.opportunities
         /\ Cardinality(hist.opportunities) = run.result.opportunities
         /\ \A o \in hist.opportunities : o.sellPriceType = "verified"
         /\ TwoPercentOnOnePair(hist.prices) => run.result.opportunities = 1

\* a crypto run saw 100 and 102 on two exchanges and returned one opportunity
C17_Witness ==
  /\ run.scout.agent = "crypto" /\ run.pc = "returned"
  /\ TwoPercentOnOnePair(hist.prices)
  /\ \E o \in hist.opportunities : o.buyPrice = 10000 /\ o.sellPrice = 10200

\* the source fetchers the agent's configuration selects
SelectedSources(agentType) ==
  {st \in SourceStages \ {"fallback"} :
     IF st = "crypto" THEN getScoutConfig(agentType).useCryptoAPIs
     ELSE Wanted([NoScout EXCEPT !.agent = agentType], st)}

\* C18: an LLM call is issued only in the snipe phase, after every source
\* fetcher the configuration selects has returned and the filter has merged a
\* non-empty list of qualified leads, and once an LLM call has been issued no
\* source or lookup of the scout and filter phases is awaited again
C18_NoFetchAfterCall ==
  hist.issued > 0 => (hist'.fetched = hist.fetched /\ run'.pc # "fetch")

C18_CallInSnipe ==
  (hist.issued > 0 \/ run.pc = "call") =>
     /\ run.scout.stage = "snipe" /\ run.scout.merged
     /\ SelectedSources(run.scout.agent) \subseteq hist.fetched

C18_PhaseOrder == [][C18_NoFetchAfterCall]_vars /\ []C18_CallInSnipe

\* an auctions run reached its second LLM call after its three sources and a lookup
C18_Witness ==
  /\ run.scout.agent = "auctions" /\ hist.issued = 2
  /\ {"gov", "tavily", "ebay", "resale"} \subseteq hist.fetched

\* the result a returned run owes to what its sources, its budget check and its
\* LLM calls did, whatever the timer did
ExpectedResult ==
  IF hist.failedAt > 0
  THEN [NoResult EXCEPT !.error = TRUE,
                        !.totalInputTokens = hist.inputTokens,
                        !.totalOutputTokens = hist.outputTokens,
                        !.estimatedCost = estimateCost(hist.inputTokens, hist.outputTokens)]
  ELSE IF run.scout.agent = "crypto"
  THEN [NoResult EXCEPT !.success = TRUE, !.reasoning = TRUE,
                        !.opportunities = ExpectedSpreads(hist.prices, run.scout.minSpreadBp)]
  ELSE IF run.scout.stage = "merged"
  THEN [NoResult EXCEPT !.success = TRUE, !.reasoning = TRUE]
  ELSE IF hist.issued = 0
  THEN [NoResult EXCEPT !.abortReason = TRUE]
  ELSE [NoResult EXCEPT !.success = TRUE,
                        !.opportunities = parseOpportunities(run.response),
                        !.reasoning = run.response.body.block,
                        !.totalInputTokens = hist.inputTokens,
                        !.totalOutputTokens = hist.outputTokens,
                        !.totalToolCalls = 1 + run.toolCalls,
                        !.estimatedCost = estimateCost(hist.inputTokens, hist.outputTokens)]

\* C19: the timer fires at most once; when it fires during a run it emits one
\* timeout event and changes nothing else (no awaited call is cancelled, the
\* program position, the totals and the ledger stay), and the run returns the
\* result and has recorded the usage that its sources and LLM calls determine
C19_FireStep ==
  (run.pc # "returned" /\ run.scout.timer = "armed" /\ run'.scout.timer = "fired") =>
     /\ run' = [run EXCEPT !.scout.timer = "fired"]
     /\ hist' = [hist EXCEPT !.timeoutEvents = @ + 1]
     /\ ledger' = ledger

C19_SameResult ==
  /\ hist.timeoutEvents = IF run.scout.timer = "fired" THEN 1 ELSE 0
  /\ run.pc = "returned" =>
       /\ run.result.error = (hist.failedAt > 0)
       /\ run.result = ExpectedResult
       /\ hist.recorded = hist.calls
       /\ RecordedByRun = hist.inputTokens + hist.outputTokens

C20_FetchFailures ==
  /\ hist.diagnostics = hist.failures
  /\ (run.pc = "returned" /\ (run.result.error \/ ~run.result.success)) =>
        (hist.failedAt > 0 \/ run.result.abortReason)

\* C23: in one run of runScoutThenSnipe the number of search_sold_prices
\* executions never exceeds maxToolCalls (5)
C23_ToolCallsCapped == run.kind = "snipe" => run.toolCalls <= maxToolCalls

\* C27: when runScoutThenSnipe has returned, on whatever path, its 3-minute timer
\* has been cancelled (or has fired before the return), so that no progress event
\* is emitted after the return
C27_TimerCancelled == run.pc = "returned" => run.scout.timer # "armed"

\* ------------------------------------------------------------------------
\* Further properties of the queue
\* ------------------------------------------------------------------------

\* C29: the queue is work-conserving: after every enqueueAgentRun call and every
\* run completion, a non-empty queue means that MAX_CONCURRENT runs are active
C29_WorkConserving == Len(queue) > 0 => ActiveCount(activeRuns) = MAX_CONCURRENT

\* a completion handed its slot to the head of the queue and a run still waits
C29_Witness ==
  /\ Len(queue) > 0 /\ ActiveCount(activeRuns) = MAX_CONCURRENT
  /\ \E r \in Requests : stream[r].phase = "finished"
  /\ \E r \in Requests : stream[r].phase = "running" /\ Emitted(r, "progress:queued")

\* C30: when every started execute settles, every entry that is queued and never
\* evicted eventually starts: its started promise resolves and its execute
\* callback is invoked, once and never again
C30_InvokedOnce ==
  \A r \in Requests :
    /\ stream[r].invoked <= 1
    /\ stream[r].started = "resolved" <=> stream[r].invoked = 1
    /\ stream[r].phase = "queued" => (stream[r].started = "pending" /\ InQueue(queue, r))

C30_QueuedStarts ==
  /\ []C30_InvokedOnce
  /\ \A r \in Requests :
       (stream[r].phase = "queued") ~>
          \/ stream[r].phase = "evicted"
          \/ stream[r].started = "resolved" /\ stream[r].invoked = 1

\* two runs that waited in the queue have both been started, one has finished
C30_Witness ==
  \E r, q \in Requests :
    /\ r # q /\ Emitted(r, "progress:queued") /\ Emitted(q, "progress:queued")
    /\ stream[r].phase = "finished" /\ stream[r].invoked = 1
    /\ stream[q].phase = "running" /\ stream[q].started = "resolved" /\ stream[q].invoked = 1

\* ------------------------------------------------------------------------
\* Further properties of the budget ledger
\* ------------------------------------------------------------------------

\* C25: recordUsage is a read-modify-write of the usage file: while no call has
\* overlapped another on one UTC day, the persisted totalTokens is the day's
\* initial total plus the sum of the tokens of all completed calls; with
\* overlapping calls an update can be lost and never counted twice
C25_ReadModifyWrite ==
  clock = 1 =>
    /\ ~usageLog.overlap =>
         TodayTotal(ledger, 1) = TodayTotal(usageLog.init, 1) + usageLog.sum
    /\ TodayTotal(ledger, 1) <= TodayTotal(usageLog.init, 1) + usageLog.sum
    /\ ledger.ok => (ledger.totalTokens = ledger.totalInputTokens + ledger.totalOutputTokens)

\* two overlapping calls have both completed and the file holds less than both recorded
C25_Witness ==
  /\ clock = 1 /\ usageLog.overlap
  /\ \A p \in Callers : caller[p].pc = "idle"
  /\ usageLog.sum >= 4
  /\ TodayTotal(ledger, 1) < TodayTotal(usageLog.init, 1) + usageLog.sum

\* three calls one after the other have all been added to the day's total
C25_SequentialWitness ==
  /\ clock = 1 /\ ~usageLog.overlap /\ Len(ledger.runs) >= 3
  /\ TodayTotal(ledger, 1) = TodayTotal(usageLog.init, 1) + usageLog.sum

\* ------------------------------------------------------------------------
\* Properties of the filter functions
\* ------------------------------------------------------------------------

\* the index pairs of two quotes of one trading pair whose relative difference
\* reaches the threshold
SpreadingQuotes(prices, minSpreadBp) ==
  {ij \in (1..Len(prices)) \X (1..Len(prices)) :
     /\ ij[1] < ij[2]
     /\ prices[ij[1]].pair = prices[ij[2]].pair
     /\ LET a == prices[ij[1]].price
            b == prices[ij[2]].price
        IN  IF a < b THEN (b - a) * 10000 >= minSpreadBp * a
            ELSE (a - b) * 10000 >= minSpreadBp * b}

\* the record is the one of the two quotes: buy at the lower, sell at the higher
RecordOf(sp, q1, q2) ==
  /\ sp.pair = q1.pair /\ sp.pair = q2.pair
  /\ \E lo, hi \in {q1, q2} :
       /\ lo.price <= hi.price /\ {lo, hi} = {q1, q2}
       /\ sp.buyExchange = lo.exchange /\ sp.buyPrice = lo.price
       /\ sp.sellExchange = hi.exchange /\ sp.sellPrice = hi.price
       /\ sp.spreadAmount = hi.price - lo.price

\* C22: findCryptoSpreads emits one record for every two quotes of one trading
\* pair whose spread (high - low) / low * 100 reaches the threshold and no other
\* record, buys at the lower-priced exchange and sells at the higher-priced one,
\* and returns the records by spreadPercent descending; quotes A=100 and B=101
\* with threshold 0.5 give one record, buy A, sell B, 1.0%
C22_CryptoSpreads ==
  crypto.pc = "returned" =>
    LET prices  == crypto.prices
        spreads == crypto.spreads
        want    == SpreadingQuotes(prices, crypto.minSpreadBp)
    IN /\ Len(spreads) = Cardinality(want)
       /\ \A ij \in want : \E k \in 1..Len(spreads) :
            RecordOf(spreads[k], prices[ij[1]], prices[ij[2]])
       /\ \A k \in 1..Len(spreads) :
            /\ \E ij \in want : RecordOf(spreads[k], prices[ij[1]], prices[ij[2]])
            /\ spreads[k].buyPrice < spreads[k].sellPrice
       /\ \A k, l \in 1..Len(spreads) : k < l =>
            spreads[k].spreadAmount * spreads[l].buyPrice
              >= spreads[l].spreadAmount * spreads[k].buyPrice
       /\ (Len(prices) = 2 /\ prices[1].pair = prices[2].pair /\ crypto.minSpreadBp = 50
           /\ {prices[1].price, prices[2].price} = {100, 101}) =>
             /\ Len(spreads) = 1
             /\ spreads[1].buyPrice = 100 /\ spreads[1].sellPrice = 101
             /\ spreads[1].spreadAmount * 100 = 1 * spreads[1].buyPrice

\* quotes 101, 100 and 102 of one pair gave three records: 2%, 1%, then 0.99%
C22_Witness ==
  /\ crypto.pc = "returned" /\ Len(crypto.prices) = 3 /\ crypto.minSpreadBp = 50
  /\ crypto.prices[1].price = 101 /\ crypto.prices[2].price = 100
  /\ Len(crypto.spreads) = 3
  /\ crypto.spreads[1].buyPrice = 100 /\ crypto.spreads[1].sellPrice = 102
  /\ crypto.spreads[2].buyPrice = 100 /\ crypto.spreads[2].sellPrice = 101
  /\ crypto.spreads[3].buyPrice = 101 /\ crypto.spreads[3].sellPrice = 102
  /\ crypto.spreads[2].buyExchange = crypto.prices[2].exchange

\* the outcomes of the requests made so far, in order
RequestsMade(trail) == SelectSeq(trail, LAMBDA o : o # "skipped")

\* C24: in batchResaleLookup no request is issued once the 3 preceding lookups
\* have all ended in a provider error (a non-2xx response of any status, a
\* timeout or a network exception)
C24_StopsAfterThreeErrors ==
  LET made == RequestsMade(lookup.trail)
  IN  \A k \in 4..Len(made) :
        ~(\A m \in (k - 3)..(k - 1) : made[m] # "ok")

\* C21: every qualified lead handed to the snipe phase whose sellPriceType is
\* not 'research_needed' has estimatedSpread = sellPriceEstimate - buyPrice, an
\* estimatedSpread of at least the agent's minProfitCents and a spreadPercent of
\* at least the agent's minSpreadPercent
SpreadQualified(q, agentType) ==
  /\ q.estimatedSpread = q.sellPriceEstimate - q.buyPrice
  /\ q.estimatedSpread >= minProfitCents(agentType)
  /\ q.spreadPercent.num >= minSpreadPercent(agentType) * q.spreadPercent.den

C21_HandedLeadsMeetThresholds ==
  filter.pc = "handed" =>
    \A n \in DOMAIN filter.allQualified :
      filter.allQualified[n].sellPriceType # "research_needed" =>
        SpreadQualified(filter.allQualified[n], filter.agent)

\* C26: a ScoutLead is never modified after the fetcher that created it has
\* returned: through the whole filter phase every lead is as its source
\* returned it
C26_LeadsNeverModified == filter.allLeads = filter.created

\* C28: at every LLM call of the snipe loop the message history starts with
\* the user message, alternates user and assistant turns, ends with a user
\* turn, and every tool_use block of an assistant turn has exactly one
\* tool_result block with its id in the user turn that follows, also when the
\* search failed
Answers(content, id) ==
  {n \in DOMAIN content : content[n].type = "tool_result" /\ content[n].tool_use_id = id}

WellFormed(messages) ==
  /\ Len(messages) >= 1
  /\ messages[1] = [role |-> "user", content |-> <<TextBlock>>]
  /\ messages[Len(messages)].role = "user"
  /\ \A i \in DOMAIN messages :
       messages[i].role = IF i % 2 = 1 THEN "user" ELSE "assistant"
  /\ \A i \in DOMAIN messages :
       messages[i].role = "assistant" =>
         /\ i + 1 <= Len(messages)
         /\ \A n \in DOMAIN messages[i].content :
              messages[i].content[n].type = "tool_use" =>
                Cardinality(Answers(messages[i + 1].content, messages[i].content[n].id)) = 1
         /\ \A n \in DOMAIN messages[i + 1].content :
              /\ messages[i + 1].content[n].type = "tool_result"
              /\ \E m \in DOMAIN messages[i].content :
                   /\ messages[i].content[m].type = "tool_use"
                   /\ messages[i].content[m].id = messages[i + 1].content[n].tool_use_id

C28_HistoryWellFormed == snipe.pc = "call" => WellFormed(snipe.messages)

\* an LLM call is made after a turn with two tool calls of which one failed
C28_Witness ==
  /\ snipe.pc = "call"
  /\ Len(snipe.messages) >= 3
  /\ \E i \in DOMAIN snipe.messages :
       /\ snipe.messages[i].role = "assistant"
       /\ Len(ToolUsesOf(snipe.messages[i].content)) = 2
       /\ \E n \in DOMAIN snipe.messages[i + 1].content :
            snipe.messages[i + 1].content[n].content = "Error: search failed"

====
